---- MODULE Spec2Model ----
(***************************************************************************)
(* State-machine model of the flood dataset builder (app/flood_dataset.py).*)
(*                                                                         *)
(* Units.  Latitudes and longitudes are integers in 1e-5 degree, cache-key *)
(* coordinates are integers in 1e-4 degree (the "%.4f" of the key),        *)
(* distances are integers in 0.01 km.  Dates are <<year, month, day>>.     *)
(* A Python value that may be None is a tagged record (None, Float, Str);  *)
(* a JSON token on disk is a different tagged record (JNull, JNum, JStr).   *)
(***************************************************************************)
EXTENDS Integers, Sequences, FiniteSets, TLC

VARIABLES
    run,            \* number of the process run over the same cache directory
    pc,             \* position of the run inside build_dataset
    TARGET_STATE,   \* args['state'] of this run
    MONTH_LIMIT,    \* args['months'] of this run
    USGS_STATIONS,  \* the in-memory station list
    usgsFile,       \* usgs_stations.json
    precipFile,     \* precipitation.json
    elevFile,       \* elevation.json
    gageFile,       \* gage_height.json
    nwsFiles,       \* nws/<year>-<month>.json, one per (year, month)
    records,        \* build_dataset's records list
    loop,           \* build_dataset's and the fetchers' loop variables; history:
                    \* the requests of the regions or offices of the call under
                    \* way (log) and the (year, month) pairs fetched (calls)
    alerts,         \* the alert list of the current (year, month)
    cur,            \* locals of the record being assembled
    lastCall,       \* history: the most recent enrichment fetch call
    lastFetch,      \* history: the most recent fetch_historical_flood_alerts call
                    \* and the months of issue the offices offered to it
    origin,         \* history: for each record, the alert and iteration it came from
    budget          \* history: the events, the failed requests, the requests and
                    \* the queries of this run

vars == <<run, pc, TARGET_STATE, MONTH_LIMIT, USGS_STATIONS, usgsFile, precipFile,
          elevFile, gageFile, nwsFiles, records, loop, alerts, cur, lastCall,
          lastFetch, origin, budget>>

----------------------------------------------------------------------------
(* Bounds of the model *)

\* process runs over the same cache directory
MaxRuns == 2
\* events the alert API returns to one run, over all of its offices and months
MaxEvents == 2
\* requests of one run that fail (an exception, a status other than 200, a
\* body that is not JSON)
MaxFaults == 1
\* largest --months value a run is started with
MaxMonthLimit == 1
\* largest month fetch_historical_flood_alerts is called for on its own
MaxMonth == 2

----------------------------------------------------------------------------
(* Python and JSON values *)

None == [py |-> "None"]
Float(x) == [py |-> "float", v |-> x]
Str(s) == [py |-> "str", v |-> s]

JNull == [js |-> "null"]
JNum(x) == [js |-> "number", v |-> x]
JStr(s) == [js |-> "string", v |-> s]

\* json.dump of one scalar value
JsonEncode(v) ==
    IF v = None THEN JNull
    ELSE IF v.py = "float" THEN JNum(v.v)
    ELSE JStr(v.v)

\* json.load of one scalar token
JsonDecode(t) ==
    IF t = JNull THEN None
    ELSE IF t.js = "number" THEN Float(t.v)
    ELSE Str(t.v)

\* "if x:" on an optional string
Truthy(v) == v # None /\ v # Str("")

NoFile == [exists |-> FALSE]
FileOf(text) == [exists |-> TRUE, json |-> TRUE, text |-> text]
\* a file whose content is not JSON (a write that stopped half way)
CorruptFile == [exists |-> TRUE, json |-> FALSE]
\* json.load(f) returns
Parses(cache_file) == cache_file.json

\* what an attempt to write a file ends in: the file is written ("ok"),
\* open() raises and the file stays as it was ("denied"), or json.dump raises
\* after open() has truncated the file ("torn")
WriteOutcomes == {"ok", "denied", "torn"}
HealthyDisk == {"ok"}
\* the file on disk after the attempt w to replace old by new
FileAfter(w, old, new) ==
    IF w = "ok" THEN new ELSE IF w = "torn" THEN CorruptFile ELSE old

----------------------------------------------------------------------------
(* Program constants and tables *)

MAX_DISTANCE_KM == 25

\* datetime.now().year
current_year == 2023
\* args['years']
YEARS_BACK == 1
YEARS == (current_year - YEARS_BACK) .. current_year

\* the states a run can be started for; "Ohio" passes the argument check
\* and is in none of the tables
TargetStates == {None, Str("Texas"), Str("Florida"), Str("Ohio")}

\* two of the fourteen regions of each table
state_name_to_fips == [Texas |-> "48", Florida |-> "12"]
all_state_codes == <<"48", "12">>

state_wfos == [Texas |-> <<"EWX", "FWD">>, Florida |-> <<"MFL">>]
all_wfos == state_wfos.Texas \o state_wfos.Florida

state_abbrevs == [Texas |-> "TX", Florida |-> "FL"]

\* two of the fourteen counties
county_coords == [Travis |-> <<3026720, -9774310>>, Harris |-> <<2976040, -9536980>>]
texas_center == <<3100000, -9900000>>

----------------------------------------------------------------------------
(* Arithmetic helpers *)

Abs(x) == IF x < 0 THEN -x ELSE x

RECURSIVE SqrtIn(_, _, _)
\* the largest r in lo..hi with r*r <= n, given lo*lo <= n < (hi+1)*(hi+1)
SqrtIn(n, lo, hi) ==
    IF lo >= hi THEN lo
    ELSE LET mid == (lo + hi + 1) \div 2
         IN  IF mid * mid <= n THEN SqrtIn(n, mid, hi) ELSE SqrtIn(n, lo, mid - 1)

ISqrt(n) == SqrtIn(n, 0, 46340)

\* "%.4f" of a coordinate given in 1e-5 degree: the nearest 1e-4 degree,
\* a tie going to the even digit
Round4(x) ==
    LET a == Abs(x)
        q == a \div 10
        r == a % 10
        m == IF r > 5 \/ (r = 5 /\ q % 2 = 1) THEN q + 1 ELSE q
    IN  IF x < 0 THEN -m ELSE m

IsLeap(y) == (y % 4 = 0 /\ y % 100 # 0) \/ y % 400 = 0

DaysInMonth(y, m) ==
    IF m = 2 THEN (IF IsLeap(y) THEN 29 ELSE 28)
    ELSE IF m \in {4, 6, 9, 11} THEN 30 ELSE 31

RECURSIVE AddDaysShort(_, _)
\* faulty variant of AddDays: one day less is added
AddDaysShort(date, n) ==
    IF n <= 1 THEN date
    ELSE LET y == date[1]
             m == date[2]
             d == date[3]
         IN  IF d < DaysInMonth(y, m) THEN AddDaysShort(<<y, m, d + 1>>, n - 1)
             ELSE IF m < 12 THEN AddDaysShort(<<y, m + 1, 1>>, n - 1)
             ELSE AddDaysShort(<<y + 1, 1, 1>>, n - 1)

RECURSIVE AddDays(_, _)
\* date + timedelta(days=n), n >= 0
AddDays(date, n) ==
    IF n = 0 THEN date
    ELSE LET y == date[1]
             m == date[2]
             d == date[3]
         IN  IF d < DaysInMonth(y, m) THEN AddDays(<<y, m, d + 1>>, n - 1)
             ELSE IF m < 12 THEN AddDays(<<y, m + 1, 1>>, n - 1)
             ELSE AddDays(<<y + 1, 1, 1>>, n - 1)

----------------------------------------------------------------------------
(* Station join *)

\* great-circle distance in 0.01 km; the sample points lie within a few
\* degrees of 30N, where one degree of latitude is 111 km and one degree of
\* longitude is 96 km
haversine(lat1, lon1, lat2, lon2) ==
    LET dy == (Abs(lat2 - lat1) * 111) \div 1000
        dx == (Abs(lon2 - lon1) * 96) \div 1000
    IN  ISqrt(dy * dy + dx * dx)

Km(n) == n * 100

RECURSIVE NearestScanLast(_, _, _, _, _)
\* faulty variant of NearestScan: "dist <= min_dist" instead of "dist < min_dist"
NearestScanLast(lat, lon, i, min_dist, nearest) ==
    IF i > Len(USGS_STATIONS) THEN nearest
    ELSE LET station == USGS_STATIONS[i]
             dist == haversine(lat, lon, station.lat, station.lon)
         IN  IF dist <= min_dist
             THEN NearestScanLast(lat, lon, i + 1, dist, Str(station.id))
             ELSE NearestScanLast(lat, lon, i + 1, min_dist, nearest)

RECURSIVE NearestScan(_, _, _, _, _)
\* the loop of find_nearest_usgs_station from station i on
NearestScan(lat, lon, i, min_dist, nearest) ==
    IF i > Len(USGS_STATIONS) THEN nearest
    ELSE LET station == USGS_STATIONS[i]
             dist == haversine(lat, lon, station.lat, station.lon)
         IN  IF dist < min_dist
             THEN NearestScan(lat, lon, i + 1, dist, Str(station.id))
             ELSE NearestScan(lat, lon, i + 1, min_dist, nearest)

\* faulty variant of find_nearest_usgs_station: the scan starts from the first
\* station instead of the 25 km limit
find_nearest_unlimited(lat, lon) ==
    IF USGS_STATIONS = <<>> THEN None
    ELSE NearestScan(lat, lon, 2,
                     haversine(lat, lon, USGS_STATIONS[1].lat, USGS_STATIONS[1].lon),
                     Str(USGS_STATIONS[1].id))

find_nearest_usgs_station(lat, lon) ==
    NearestScan(lat, lon, 1, Km(MAX_DISTANCE_KM), None)

----------------------------------------------------------------------------
(* External responses *)

\* requests.get raised (timeout, connection error)
ExcResp == [kind |-> "exc"]
Http(status, body) == [kind |-> "http", status |-> status, body |-> body]
NoJson == [json |-> FALSE]
Json(fields) == [json |-> TRUE] @@ fields

\* the failed requests among the responses reqs
Failed(r) == r.kind = "exc" \/ r.status # 200 \/ ~r.body.json
Faults(reqs) == Cardinality({i \in 1..Len(reqs) : Failed(reqs[i])})
\* the budget after one query (of a region, an office or a fetcher) that
\* returned the given number of events and received the responses reqs
Spend(events, reqs) ==
    [events |-> budget.events + events, faults |-> budget.faults + Faults(reqs),
     sent |-> budget.sent + Len(reqs), queries |-> budget.queries + 1]
WithinBudget == budget'.events <= MaxEvents /\ budget'.faults <= MaxFaults

\* the answers a call can get from the responses Rs: the first response and
\* the response to a retry (the first one again when it is not a failure, as
\* no retry follows it)
Answers(Rs) == {p \in Rs \X Rs : Failed(p[1]) \/ p[2] = p[1]}
\* the answers whose first response the budget of the run allows
Affordable(Ps) == {p \in Ps : Failed(p[1]) => budget.faults < MaxFaults}

\* r.raise_for_status() raises HTTPError
RaisesHttpError(r) == r.status >= 400 /\ r.status < 600

----------------------------------------------------------------------------
(* Cache helper functions *)

\* faulty variant of load_cache: a key stored with null is read as missing
load_cache_truthy(cache_file) ==
    IF cache_file.exists /\ Parses(cache_file)
    THEN LET kept == {k \in DOMAIN cache_file.text : cache_file.text[k] # JNull}
         IN  [k \in kept |-> JsonDecode(cache_file.text[k])]
    ELSE <<>>

\* load_cache: the file's mapping, or {} when the file does not exist or
\* json.load raises
load_cache(cache_file) ==
    IF cache_file.exists /\ Parses(cache_file)
    THEN [k \in DOMAIN cache_file.text |-> JsonDecode(cache_file.text[k])]
    ELSE <<>>

\* faulty variant of save_cache: a key whose value is None is left out
save_cache_compact(cache_data) ==
    FileOf([k \in {j \in DOMAIN cache_data : cache_data[j] # None}
               |-> JsonEncode(cache_data[k])])

\* save_cache: the file after json.dump(cache_data)
save_cache(cache_data) ==
    FileOf([k \in DOMAIN cache_data |-> JsonEncode(cache_data[k])])

\* faulty variant of StoreResult: the file is rewritten with the new entry only
StoreOnlyResult(cache_data, cache_key, result) ==
    save_cache(cache_key :> result)

\* cache_data[cache_key] = result; save_cache(file, cache_data)
StoreResult(cache_data, cache_key, result) ==
    save_cache((cache_key :> result) @@ cache_data)

\* what a fetcher call did: the value returned, the cache file afterwards and
\* the responses of the requests it issued
Outcome(ret, file, reqs) == [ret |-> ret, file |-> file, reqs |-> reqs]

----------------------------------------------------------------------------
(* NOAA precipitation *)

PrecipKey(lat, lon, date) == <<Round4(lat), Round4(lon), date>>

\* faulty variant of SumValues: only the first value counts
FirstValue(items) ==
    IF items = <<>> THEN 0 ELSE Head(items).value

RECURSIVE SumValues(_)
SumValues(items) ==
    IF items = <<>> THEN 0 ELSE Head(items).value + SumValues(Tail(items))

\* lines 299-313: the handling of the response r that is left after the
\* optional retry
PrecipFinish(cache_file, cache_data, cache_key, r, reqs) ==
    IF r.status = 200
    THEN IF ~r.body.json
         THEN Outcome(None, cache_file, reqs)
         ELSE LET data == IF "results" \in DOMAIN r.body THEN r.body.results ELSE <<>>
              IN  IF \E i \in 1..Len(data) : "value" \notin DOMAIN data[i]
                  THEN Outcome(None, cache_file, reqs)
                  ELSE Outcome(Float(SumValues(data)),
                               StoreResult(cache_data, cache_key, Float(SumValues(data))),
                               reqs)
    ELSE Outcome(None, StoreResult(cache_data, cache_key, None), reqs)

\* get_precipitation, answered by r1 and, if it retries, by r2
get_precipitation(lat, lon, date, cache_file, r1, r2) ==
    LET cache_key == PrecipKey(lat, lon, date)
        cache_data == load_cache(cache_file)
    IN  IF cache_key \in DOMAIN cache_data
        THEN Outcome(cache_data[cache_key], cache_file, <<>>)
        ELSE IF r1.kind = "exc"
        THEN Outcome(None, cache_file, <<r1>>)
        ELSE IF r1.status = 429
        THEN IF r2.kind = "exc"
             THEN Outcome(None, cache_file, <<r1, r2>>)
             ELSE PrecipFinish(cache_file, cache_data, cache_key, r2, <<r1, r2>>)
        ELSE PrecipFinish(cache_file, cache_data, cache_key, r1, <<r1>>)

----------------------------------------------------------------------------
(* USGS elevation *)

ElevKey(lat, lon) == <<Round4(lat), Round4(lon)>>

\* lines 340-361
ElevFinish(cache_file, cache_data, cache_key, r, reqs) ==
    IF r.status = 200
    THEN IF ~r.body.json
         THEN Outcome(None, cache_file, reqs)
         ELSE IF "value" \in DOMAIN r.body
         THEN Outcome(r.body.value, StoreResult(cache_data, cache_key, r.body.value), reqs)
         ELSE IF "elevation" \in DOMAIN r.body
         THEN Outcome(r.body.elevation,
                      StoreResult(cache_data, cache_key, r.body.elevation), reqs)
         ELSE Outcome(None, cache_file, reqs)
    ELSE Outcome(None, StoreResult(cache_data, cache_key, None), reqs)

\* faulty variant of get_elevation: a hit writes the entry back, alone
get_elevation_rewriting(lat, lon, cache_file, r1, r2) ==
    LET cache_key == ElevKey(lat, lon)
        cache_data == load_cache(cache_file)
    IN  IF cache_key \in DOMAIN cache_data
        THEN Outcome(cache_data[cache_key],
                     save_cache(cache_key :> cache_data[cache_key]), <<>>)
        ELSE IF r1.kind = "exc"
        THEN Outcome(None, cache_file, <<r1>>)
        ELSE IF r1.status = 429
        THEN IF r2.kind = "exc"
             THEN Outcome(None, cache_file, <<r1, r2>>)
             ELSE ElevFinish(cache_file, cache_data, cache_key, r2, <<r1, r2>>)
        ELSE ElevFinish(cache_file, cache_data, cache_key, r1, <<r1>>)

\* lines 316-361, answered by r1 and, if it retries, by r2
get_elevation(lat, lon, cache_file, r1, r2) ==
    LET cache_key == ElevKey(lat, lon)
        cache_data == load_cache(cache_file)
    IN  IF cache_key \in DOMAIN cache_data
        THEN Outcome(cache_data[cache_key], cache_file, <<>>)
        ELSE IF r1.kind = "exc"
        THEN Outcome(None, cache_file, <<r1>>)
        ELSE IF r1.status = 429
        THEN IF r2.kind = "exc"
             THEN Outcome(None, cache_file, <<r1, r2>>)
             ELSE ElevFinish(cache_file, cache_data, cache_key, r2, <<r1, r2>>)
        ELSE ElevFinish(cache_file, cache_data, cache_key, r1, <<r1>>)

----------------------------------------------------------------------------
(* USGS gage height *)

GageKey(station_id, date) == <<station_id.v, date>>

\* the key of a call, <<>> for a call without a station
GageCallKey(station_id, date) ==
    IF Truthy(station_id) THEN GageKey(station_id, date) ELSE <<>>

\* station ids whose digits contain "429": the request URL, and so str(e) of
\* any HTTPError, contains "429"
IdsWith429 == {"08429500"}

\* '"429" in str(e)' for the HTTPError of response r to a gage request
GageSays429(station_id, r) == r.status = 429 \/ station_id.v \in IdsWith429

\* lines 202-212 and 222-229: the parse of a 200 response
GageParse(cache_file, cache_data, cache_key, r, reqs) ==
    IF ~r.body.json
    THEN Outcome(None, cache_file, reqs)
    ELSE LET features == IF "features" \in DOMAIN r.body THEN r.body.features ELSE <<>>
         IN  IF features = <<>>
             THEN Outcome(None, StoreResult(cache_data, cache_key, None), reqs)
             ELSE LET value == Head(features).value
                  IN  IF value = None
                      THEN Outcome(None, StoreResult(cache_data, cache_key, None), reqs)
                      ELSE IF value.py = "float"
                      THEN Outcome(value, StoreResult(cache_data, cache_key, value), reqs)
                      ELSE Outcome(None, cache_file, reqs)

\* faulty variant of get_usgs_gage_height: a call without a station stores
\* null under the empty key
get_usgs_gage_height_keyed(station_id, date, cache_file, r1, r2) ==
    IF ~Truthy(station_id)
    THEN Outcome(None, StoreResult(load_cache(cache_file), <<>>, None), <<>>)
    ELSE LET cache_key == GageKey(station_id, date)
             cache_data == load_cache(cache_file)
         IN  IF cache_key \in DOMAIN cache_data
             THEN Outcome(cache_data[cache_key], cache_file, <<>>)
             ELSE IF r1.kind = "exc"
             THEN Outcome(None, cache_file, <<r1>>)
             ELSE IF RaisesHttpError(r1)
             THEN IF GageSays429(station_id, r1)
                  THEN IF r2.kind = "exc" \/ RaisesHttpError(r2)
                       THEN Outcome(None, cache_file, <<r1, r2>>)
                       ELSE GageParse(cache_file, cache_data, cache_key, r2, <<r1, r2>>)
                  ELSE Outcome(None, cache_file, <<r1>>)
             ELSE GageParse(cache_file, cache_data, cache_key, r1, <<r1>>)

get_usgs_gage_height(station_id, date, cache_file, r1, r2) ==
    IF ~Truthy(station_id)
    THEN Outcome(None, cache_file, <<>>)
    ELSE LET cache_key == GageKey(station_id, date)
             cache_data == load_cache(cache_file)
         IN  IF cache_key \in DOMAIN cache_data
             THEN Outcome(cache_data[cache_key], cache_file, <<>>)
             ELSE IF r1.kind = "exc"
             THEN Outcome(None, cache_file, <<r1>>)
             ELSE IF RaisesHttpError(r1)
             THEN IF GageSays429(station_id, r1)
                  THEN IF r2.kind = "exc" \/ RaisesHttpError(r2)
                       THEN Outcome(None, cache_file, <<r1, r2>>)
                       ELSE GageParse(cache_file, cache_data, cache_key, r2, <<r1, r2>>)
                  ELSE Outcome(None, cache_file, <<r1>>)
             ELSE GageParse(cache_file, cache_data, cache_key, r1, <<r1>>)

----------------------------------------------------------------------------
(* Location text *)

\* A location text is kept by what the code reads from it: the capitalised
\* word before the first "[" (the group of the regular expression, "" when
\* it does not match), the abbreviation between the brackets ("" when there
\* is none) and the state names spelled out in the text.
Text(county, tag, names) == [text |-> TRUE, county |-> county, tag |-> tag, names |-> names]
EmptyText == Text("", "", {})
\* a "locations" value that is not a string (a number, null)
NotText == [text |-> FALSE]

\* '"[XX]" in location_str'
HasTag(location_str, abbrev) == location_str.tag = abbrev
\* 'name in location_str'
HasName(location_str, name) == name \in location_str.names

----------------------------------------------------------------------------
(* IEM historical flood alerts *)

YearMonths == YEARS \X (1..12)

\* lines 389-395
Wfos ==
    IF Truthy(TARGET_STATE) /\ TARGET_STATE.v \in DOMAIN state_wfos
    THEN state_wfos[TARGET_STATE.v]
    ELSE all_wfos

\* datetime.strptime(event["issue"][:10], "%Y-%m-%d") returns a date
IssueParses(event) == "issue" \in DOMAIN event /\ event.issue.valid

EventLocations(event) ==
    IF "locations" \in DOMAIN event THEN event.locations ELSE EmptyText

\* lines 453-454
state_to_find ==
    IF TARGET_STATE.v \in DOMAIN state_abbrevs
    THEN state_abbrevs[TARGET_STATE.v]
    ELSE TARGET_STATE.v

\* faulty variant of EventKept: the month of issue is not compared
EventKeptAnyMonth(event, month) ==
    /\ IssueParses(event)
    /\ Truthy(TARGET_STATE) =>
          /\ EventLocations(event).text
          /\ \/ HasTag(EventLocations(event), state_to_find)
             \/ HasName(EventLocations(event), TARGET_STATE.v)

\* lines 433-455: the event reaches line 458 (no "continue", no exception)
EventKept(event, month) ==
    /\ IssueParses(event)
    /\ event.issue.date[2] = month
    /\ Truthy(TARGET_STATE) =>
          /\ EventLocations(event).text
          /\ \/ HasTag(EventLocations(event), state_to_find)
             \/ HasName(EventLocations(event), TARGET_STATE.v)

EventField(event, name, default) ==
    IF name \in DOMAIN event THEN event[name] ELSE default

\* lines 458-470
AlertOf(event) ==
    [properties |->
        [event |-> <<EventField(event, "ph_name", "Flood"),
                     EventField(event, "sig_name", "Warning")>>,
         areaDesc |-> EventLocations(event),
         severity |-> EventField(event, "sig_name", "Warning"),
         certainty |-> "Observed",
         urgency |-> "Past",
         onset |-> event.issue],
     geometry |-> None,
     issue_timestamp |-> event.issue,
     area_sq_miles |-> EventField(event, "area", 0)]

RECURSIVE ProcessEvents(_, _, _)
\* lines 432-475: the alerts list after the events of one response
ProcessEvents(events, month, acc) ==
    IF events = <<>> THEN acc
    ELSE IF EventKept(Head(events), month)
    THEN ProcessEvents(Tail(events), month, Append(acc, AlertOf(Head(events))))
    ELSE ProcessEvents(Tail(events), month, acc)

\* faulty variant of OfficeData: the request that follows a 429 is sent twice
OfficeDataRetryTwice(r1, r2) ==
    IF r1.kind = "exc" THEN [skip |-> TRUE, reqs |-> <<r1>>]
    ELSE IF RaisesHttpError(r1)
    THEN IF r1.status = 429
         THEN IF r2.kind = "exc" \/ RaisesHttpError(r2) \/ ~r2.body.json
              THEN [skip |-> TRUE, reqs |-> <<r1, r2, r2>>]
              ELSE [skip |-> FALSE, data |-> r2.body, reqs |-> <<r1, r2, r2>>]
         ELSE [skip |-> TRUE, reqs |-> <<r1>>]
    ELSE IF ~r1.body.json THEN [skip |-> TRUE, reqs |-> <<r1>>]
    ELSE [skip |-> FALSE, data |-> r1.body, reqs |-> <<r1>>]

\* lines 407-427: the parsed data of one office, or "skip" on a "continue";
\* r2 answers the retry
OfficeData(r1, r2) ==
    IF r1.kind = "exc" THEN [skip |-> TRUE, reqs |-> <<r1>>]
    ELSE IF RaisesHttpError(r1)
    THEN IF r1.status = 429
         THEN IF r2.kind = "exc" \/ RaisesHttpError(r2) \/ ~r2.body.json
              THEN [skip |-> TRUE, reqs |-> <<r1, r2>>]
              ELSE [skip |-> FALSE, data |-> r2.body, reqs |-> <<r1, r2>>]
         ELSE [skip |-> TRUE, reqs |-> <<r1>>]
    ELSE IF ~r1.body.json THEN [skip |-> TRUE, reqs |-> <<r1>>]
    ELSE [skip |-> FALSE, data |-> r1.body, reqs |-> <<r1>>]

\* json.dump / json.load of an alert list
AlertToJson(alert) ==
    [alert EXCEPT !.geometry = IF alert.geometry = None THEN JNull ELSE alert.geometry]
AlertFromJson(obj) ==
    [obj EXCEPT !.geometry = IF obj.geometry = JNull THEN None ELSE obj.geometry]
DumpAlerts(list) == [i \in 1..Len(list) |-> AlertToJson(list[i])]
LoadAlerts(text) == [i \in 1..Len(text) |-> AlertFromJson(text[i])]

EventsIn(r) ==
    IF r.kind = "http" /\ r.body.json /\ "events" \in DOMAIN r.body
    THEN Len(r.body.events) ELSE 0

\* the months of issue of the events that parse
MonthsOf(events) ==
    {events[i].issue.date[2] : i \in {j \in 1..Len(events) : IssueParses(events[j])}}

\* lines 364-397: fetch_historical_flood_alerts(loop.year, loop.month) up to
\* its first office; the cache file, when it exists, is returned as it is, and
\* the exception of json.load leaves the function and build_dataset
FetchAlerts ==
    /\ pc = "fetch"
    /\ LET cache_file == nwsFiles[<<loop.year, loop.month>>]
           called == Append(loop.calls, <<loop.year, loop.month>>)
       IN  IF cache_file.exists /\ ~Parses(cache_file)
           THEN /\ loop' = [loop EXCEPT !.calls = called]
                /\ pc' = "raised"
                /\ UNCHANGED <<alerts, lastFetch>>
           ELSE IF cache_file.exists
           THEN /\ alerts' = LoadAlerts(cache_file.text)
                /\ lastFetch' = [year |-> loop.year, month |-> loop.month, run |-> run,
                                 cached |-> TRUE, nreq |-> 0, offered |-> {},
                                 ret |-> LoadAlerts(cache_file.text)]
                /\ loop' = [loop EXCEPT !.i = 1, !.calls = called]
                /\ pc' = "fetched"
           ELSE /\ loop' = [loop EXCEPT !.i = 1, !.acc = <<>>, !.nreq = 0,
                                        !.offered = {}, !.log = <<>>,
                                        !.calls = called]
                /\ pc' = "office"
                /\ UNCHANGED <<alerts, lastFetch>>
    /\ UNCHANGED <<run, TARGET_STATE, MONTH_LIMIT, USGS_STATIONS, usgsFile, precipFile,
                   elevFile, gageFile, nwsFiles, records, cur, lastCall, origin, budget>>

\* faulty variant of QueryOffice: an office that fails ends the loop
QueryOfficeOrStop(Ps) ==
    /\ pc = "office"
    /\ loop.i <= Len(Wfos)
    /\ \E p \in Ps :
          LET r1 == p[1]
              r2 == p[2]
              got == OfficeData(r1, r2)
              events == IF got.skip THEN <<>>
                        ELSE IF "events" \in DOMAIN got.data THEN got.data.events
                        ELSE <<>>
              returned == EventsIn(r1) + (IF Len(got.reqs) = 2 THEN EventsIn(r2) ELSE 0)
          IN  /\ Len(got.reqs) = 1 => r2 = r1
              /\ budget' = Spend(returned, got.reqs)
              /\ loop' = [loop EXCEPT !.i = IF got.skip THEN Len(Wfos) + 1 ELSE @ + 1,
                                      !.acc = ProcessEvents(events, loop.month, @),
                                      !.nreq = @ + Len(got.reqs),
                                      !.offered = @ \cup MonthsOf(events),
                                      !.log = Append(@, [query |-> Wfos[loop.i],
                                                         reqs |-> got.reqs])]
    /\ UNCHANGED <<run, pc, TARGET_STATE, MONTH_LIMIT, USGS_STATIONS, usgsFile,
                   precipFile, elevFile, gageFile, nwsFiles, records, alerts, cur,
                   lastCall, lastFetch, origin>>

\* lines 398-479: one office of the loop, answered by a pair of Ps: the first response
\* and the response to the retry
QueryOffice(Ps) ==
    /\ pc = "office"
    /\ loop.i <= Len(Wfos)
    /\ \E p \in Ps :
          LET r1 == p[1]
              r2 == p[2]
              got == OfficeData(r1, r2)
              events == IF got.skip THEN <<>>
                        ELSE IF "events" \in DOMAIN got.data THEN got.data.events
                        ELSE <<>>
              returned == EventsIn(r1) + (IF Len(got.reqs) = 2 THEN EventsIn(r2) ELSE 0)
          IN  /\ Len(got.reqs) = 1 => r2 = r1
              /\ budget' = Spend(returned, got.reqs)
              /\ loop' = [loop EXCEPT !.i = @ + 1,
                                      !.acc = ProcessEvents(events, loop.month, @),
                                      !.nreq = @ + Len(got.reqs),
                                      !.offered = @ \cup MonthsOf(events),
                                      !.log = Append(@, [query |-> Wfos[loop.i],
                                                         reqs |-> got.reqs])]
    /\ UNCHANGED <<run, pc, TARGET_STATE, MONTH_LIMIT, USGS_STATIONS, usgsFile,
                   precipFile, elevFile, gageFile, nwsFiles, records, alerts, cur,
                   lastCall, lastFetch, origin>>

\* faulty variant of WrittenFile: an empty list leaves no file
WrittenIfAny(list) == IF list = <<>> THEN NoFile ELSE FileOf(DumpAlerts(list))

\* lines 481-482: the cache file of a list
WrittenFile(list) == FileOf(DumpAlerts(list))

\* lines 481-483: the list is written and returned; the write ends as one of
\* Ws, and the exception of a write that fails leaves the function and
\* build_dataset
PersistAlerts(Ws) ==
    /\ pc = "office"
    /\ loop.i > Len(Wfos)
    /\ \E w \in Ws :
          /\ nwsFiles' = [nwsFiles EXCEPT ![<<loop.year, loop.month>>] =
                             FileAfter(w, @, WrittenFile(loop.acc))]
          /\ IF w = "ok"
             THEN /\ alerts' = loop.acc
                  /\ lastFetch' = [year |-> loop.year, month |-> loop.month,
                                   run |-> run, cached |-> FALSE, nreq |-> loop.nreq,
                                   offered |-> loop.offered, ret |-> loop.acc]
                  /\ loop' = [loop EXCEPT !.i = 1, !.acc = <<>>, !.offered = {},
                                          !.log = <<>>]
                  /\ pc' = "fetched"
             ELSE /\ pc' = "raised"
                  /\ UNCHANGED <<alerts, lastFetch, loop>>
    /\ UNCHANGED <<run, TARGET_STATE, MONTH_LIMIT, USGS_STATIONS, usgsFile, precipFile,
                   elevFile, gageFile, records, cur, lastCall, origin, budget>>

----------------------------------------------------------------------------
(* USGS station list *)

\* lines 77-84
state_codes ==
    IF Truthy(TARGET_STATE) /\ TARGET_STATE.v \in DOMAIN state_name_to_fips
    THEN <<state_name_to_fips[TARGET_STATE.v]>>
    ELSE all_state_codes

\* lines 130-141: the feature is appended (no exception, the test of line 134 holds)
FeatureKept(feature) ==
    /\ "properties" \in DOMAIN feature
    /\ "geometry" \in DOMAIN feature
    /\ feature.geometry # None
    /\ feature.geometry.type = "Point"
    /\ Len(feature.geometry.coordinates) >= 2
    /\ "monitoring_location_number" \in DOMAIN feature.properties
    /\ feature.geometry.coordinates[1] \in Int
    /\ feature.geometry.coordinates[2] \in Int

StationOf(feature) ==
    [id |-> feature.properties.monitoring_location_number,
     lat |-> feature.geometry.coordinates[2],
     lon |-> feature.geometry.coordinates[1]]

RECURSIVE ParseFeaturesUntilMalformed(_, _)
\* faulty variant of ParseFeatures: the first feature that is left out ends the
\* loop over the features of the region
ParseFeaturesUntilMalformed(features, stations) ==
    IF features = <<>> THEN stations
    ELSE IF FeatureKept(Head(features))
    THEN ParseFeaturesUntilMalformed(Tail(features),
                                     Append(stations, StationOf(Head(features))))
    ELSE stations

RECURSIVE ParseFeatures(_, _)
\* lines 127-144
ParseFeatures(features, stations) ==
    IF features = <<>> THEN stations
    ELSE IF FeatureKept(Head(features))
    THEN ParseFeatures(Tail(features), Append(stations, StationOf(Head(features))))
    ELSE ParseFeatures(Tail(features), stations)

\* lines 100-125: what the region's query ends in: "exit" (sys.exit(1)),
\* "skip" (continue) or "data"
StationData(r1, r2) ==
    IF r1.kind = "exc" THEN [end |-> "skip", reqs |-> <<r1>>]
    ELSE IF RaisesHttpError(r1)
    THEN IF r1.status = 429
         THEN IF r2.kind = "exc" \/ RaisesHttpError(r2) \/ ~r2.body.json
              THEN [end |-> "skip", reqs |-> <<r1, r2>>]
              ELSE [end |-> "data", data |-> r2.body, reqs |-> <<r1, r2>>]
         ELSE [end |-> "skip", reqs |-> <<r1>>]
    ELSE IF ~r1.body.json THEN [end |-> "skip", reqs |-> <<r1>>]
    ELSE IF "numberReturned" \in DOMAIN r1.body /\ r1.body.numberReturned = 0
    THEN [end |-> "exit", reqs |-> <<r1>>]
    ELSE [end |-> "data", data |-> r1.body, reqs |-> <<r1>>]

\* lines 86-148: one region of the loop of load_usgs_stations
LoadStationsRegion(Ps) ==
    /\ pc = "stations"
    /\ loop.i <= Len(state_codes)
    /\ \E p \in Ps :
          LET r1 == p[1]
              r2 == p[2]
              got == StationData(r1, r2)
          IN  /\ Len(got.reqs) = 1 => r2 = r1
              /\ budget' = Spend(0, got.reqs)
              /\ IF got.end = "exit"
                 THEN /\ pc' = "aborted"
                      /\ loop' = [loop EXCEPT !.log = Append(@,
                                      [query |-> state_codes[loop.i], reqs |-> got.reqs])]
                      /\ UNCHANGED USGS_STATIONS
                 ELSE /\ pc' = pc
                      /\ loop' = [loop EXCEPT !.i = @ + 1, !.log = Append(@,
                                      [query |-> state_codes[loop.i], reqs |-> got.reqs])]
                      /\ USGS_STATIONS' =
                            IF got.end = "skip" THEN USGS_STATIONS
                            ELSE ParseFeatures(
                                    IF "features" \in DOMAIN got.data
                                    THEN got.data.features ELSE <<>>,
                                    USGS_STATIONS)
    /\ UNCHANGED <<run, TARGET_STATE, MONTH_LIMIT, usgsFile, precipFile, elevFile,
                   gageFile, nwsFiles, records, alerts, cur, lastCall, lastFetch,
                   origin>>

\* lines 150-152: the list is written to the station cache file; the write
\* ends as one of Ws, and the exception of a write that fails leaves the
\* function and build_dataset
SaveStations(Ws) ==
    /\ pc = "stations"
    /\ loop.i > Len(state_codes)
    /\ \E w \in Ws :
          /\ usgsFile' = FileAfter(w, usgsFile, FileOf(USGS_STATIONS))
          /\ pc' = IF w = "ok" THEN "loaded" ELSE "raised"
    /\ UNCHANGED <<run, TARGET_STATE, MONTH_LIMIT, USGS_STATIONS, precipFile, elevFile,
                   gageFile, nwsFiles, records, loop, alerts, cur, lastCall, lastFetch,
                   origin, budget>>

----------------------------------------------------------------------------
(* Alert centroid *)

\* a centroid call either raises or returns a pair of optional floats
Raised == [raised |-> TRUE]
Returned(lat, lon) == [raised |-> FALSE, lat |-> lat, lon |-> lon]

\* lines 504-536; re.search raises TypeError on a value that is not a string
get_coordinates_from_location(location_str) ==
    IF ~location_str.text THEN Raised
    ELSE IF location_str.county \in DOMAIN county_coords
    THEN Returned(Float(county_coords[location_str.county][1]),
                  Float(county_coords[location_str.county][2]))
    ELSE IF HasTag(location_str, "TX")
    THEN Returned(Float(texas_center[1]), Float(texas_center[2]))
    ELSE Returned(None, None)

RECURSIVE SumAxis(_, _)
SumAxis(coords, k) ==
    IF coords = <<>> THEN 0 ELSE Head(coords)[k] + SumAxis(Tail(coords), k)

\* lines 485-502
get_alert_centroid(alert) ==
    LET geom == IF "geometry" \in DOMAIN alert THEN alert.geometry ELSE None
        props == IF "properties" \in DOMAIN alert THEN alert.properties ELSE <<>>
        area_desc == IF "areaDesc" \in DOMAIN props THEN props.areaDesc ELSE EmptyText
    IN  IF geom # None /\ geom.type = "Point"
        THEN Returned(Float(geom.coordinates[2]), Float(geom.coordinates[1]))
        ELSE IF geom # None /\ geom.type = "Polygon"
        THEN LET coords == geom.coordinates[1]
             IN  IF coords = <<>> THEN Raised
                 ELSE Returned(Float(SumAxis(coords, 2) \div Len(coords)),
                               Float(SumAxis(coords, 1) \div Len(coords)))
        ELSE IF area_desc # EmptyText
        THEN get_coordinates_from_location(area_desc)
        ELSE Returned(None, None)

----------------------------------------------------------------------------
(* Build dataset *)

NoCur == [busy |-> FALSE]
NoCall == [fn |-> "none"]
NoFetch == [year |-> 0]
LoopStart == [i |-> 1, year |-> current_year - YEARS_BACK, month |-> 1,
              acc |-> <<>>, nreq |-> 0, offered |-> {}, log |-> <<>>, calls |-> <<>>]

\* the literal "None" of the negative records
NoneText == [text |-> TRUE, county |-> "", tag |-> "", names |-> {}, literal |-> "None"]

\* values uniform(-0.5, 0.5) can return, in 1e-5 degree
uniform_half == {-50000, 50000}
\* values randint(1, 28) can return
randint_1_28 == {1, 28}

\* faulty variant of Located: an alert without a centroid is placed at the
\* centre of Texas
LocatedAnywhere(alert) ==
    LET c == get_alert_centroid(alert)
    IN  IF c.raised THEN [ok |-> FALSE, why |-> "exception"]
        ELSE IF ~alert.properties.onset.valid THEN [ok |-> FALSE, why |-> "exception"]
        ELSE IF c.lat = None
        THEN [ok |-> TRUE, lat |-> texas_center[1], lon |-> texas_center[2],
              start_date |-> alert.properties.onset.date]
        ELSE [ok |-> TRUE, lat |-> c.lat.v, lon |-> c.lon.v,
              start_date |-> alert.properties.onset.date]

\* lines 551-554 and 586-589: the coordinate and onset date of the alert, or
\* the reason why the record is left out
Located(alert) ==
    LET c == get_alert_centroid(alert)
    IN  IF c.raised THEN [ok |-> FALSE, why |-> "exception"]
        ELSE IF c.lat = None THEN [ok |-> FALSE, why |-> "no centroid"]
        ELSE IF ~alert.properties.onset.valid THEN [ok |-> FALSE, why |-> "exception"]
        ELSE [ok |-> TRUE, lat |-> c.lat.v, lon |-> c.lon.v,
              start_date |-> alert.properties.onset.date]

CallOf(fn, key, out) == [fn |-> fn, key |-> key, ret |-> out.ret, reqs |-> out.reqs]

\* faulty variant of SkipRecord: an exception is not caught and ends the run
AbortOnException(why) ==
    IF why = "exception"
    THEN /\ pc' = "aborted"
         /\ UNCHANGED <<loop, precipFile, cur, lastCall, budget>>
    ELSE /\ loop' = [loop EXCEPT !.i = @ + 1]
         /\ UNCHANGED <<pc, precipFile, cur, lastCall, budget>>

\* faulty variant of SkipRecord: an alert without a centroid ends the loop
\* over the alerts
StopAtNoCentroid(why) ==
    /\ loop' = [loop EXCEPT !.i = IF why = "no centroid" THEN Len(alerts) + 1 ELSE @ + 1]
    /\ UNCHANGED <<pc, precipFile, cur, lastCall, budget>>

\* lines 552-553, 579-581, 587-588 and 618-620: the "continue" of both record
\* loops, taken when the alert has no centroid and when the try block raised
SkipRecord(why) ==
    /\ loop' = [loop EXCEPT !.i = @ + 1]
    /\ UNCHANGED <<pc, precipFile, cur, lastCall, budget>>

\* lines 541-544: the first (year, month) of the loops
StartMonths ==
    /\ pc = "loaded"
    /\ records' = <<>>
    /\ loop' = [LoopStart EXCEPT !.log = loop.log]
    /\ pc' = "fetch"
    /\ UNCHANGED <<run, TARGET_STATE, MONTH_LIMIT, USGS_STATIONS, usgsFile, precipFile,
                   elevFile, gageFile, nwsFiles, alerts, cur, lastCall, lastFetch,
                   origin, budget>>

\* lines 545-549: the alert list is in hand, the positive loop starts
StartPositives ==
    /\ pc = "fetched"
    /\ loop' = [loop EXCEPT !.i = 1]
    /\ pc' = "pos"
    /\ UNCHANGED <<run, TARGET_STATE, MONTH_LIMIT, USGS_STATIONS, usgsFile, precipFile,
                   elevFile, gageFile, nwsFiles, records, alerts, cur, lastCall,
                   lastFetch, origin, budget>>

\* lines 550-556: the positive record of alert loop.i up to get_precipitation
PosPrecip(Ps) ==
    /\ pc = "pos"
    /\ loop.i <= Len(alerts)
    /\ LET at == Located(alerts[loop.i])
       IN  IF ~at.ok
           THEN SkipRecord(at.why)
           ELSE \E p \in Ps :
                   LET r1 == p[1]
                       r2 == p[2]
                       out == get_precipitation(at.lat, at.lon, at.start_date,
                                                precipFile, r1, r2)
                   IN  /\ Len(out.reqs) < 2 => r2 = r1
                       /\ budget' = Spend(0, out.reqs)
                       /\ precipFile' = out.file
                       /\ cur' = [busy |-> TRUE, lat |-> at.lat, lon |-> at.lon,
                                  date |-> at.start_date, precip |-> out.ret,
                                  elevation |-> None]
                       /\ lastCall' = CallOf("precip",
                                         PrecipKey(at.lat, at.lon, at.start_date), out)
                       /\ pc' = "pos_elev"
                       /\ UNCHANGED loop
    /\ UNCHANGED <<run, TARGET_STATE, MONTH_LIMIT, USGS_STATIONS, usgsFile, elevFile,
                   gageFile, nwsFiles, records, alerts, lastFetch, origin>>

\* line 557
PosElev(Ps) ==
    /\ pc = "pos_elev"
    /\ \E p \in Ps :
          LET r1 == p[1]
              r2 == p[2]
              out == get_elevation(cur.lat, cur.lon, elevFile, r1, r2)
          IN  /\ Len(out.reqs) < 2 => r2 = r1
              /\ budget' = Spend(0, out.reqs)
              /\ elevFile' = out.file
              /\ cur' = [cur EXCEPT !.elevation = out.ret]
              /\ lastCall' = CallOf("elev", ElevKey(cur.lat, cur.lon), out)
    /\ pc' = "pos_gage"
    /\ UNCHANGED <<run, TARGET_STATE, MONTH_LIMIT, USGS_STATIONS, usgsFile, precipFile,
                   gageFile, nwsFiles, records, loop, alerts, lastFetch, origin>>

\* lines 559-578
PosGage(Ps) ==
    /\ pc = "pos_gage"
    /\ \E p \in Ps :
          LET r1 == p[1]
              r2 == p[2]
              alert == alerts[loop.i]
              station_id == find_nearest_usgs_station(cur.lat, cur.lon)
              out == get_usgs_gage_height(station_id, cur.date, gageFile, r1, r2)
          IN  /\ Len(out.reqs) < 2 => r2 = r1
              /\ budget' = Spend(0, out.reqs)
              /\ gageFile' = out.file
              /\ lastCall' = CallOf("gage", GageCallKey(station_id, cur.date), out)
              /\ records' = Append(records,
                    [year |-> loop.year,
                     month |-> loop.month,
                     lat |-> cur.lat,
                     lon |-> cur.lon,
                     event |-> alert.properties.event,
                     area |-> alert.properties.areaDesc,
                     severity |-> alert.properties.severity,
                     certainty |-> alert.properties.certainty,
                     urgency |-> alert.properties.urgency,
                     precip_24h_mm |-> cur.precip,
                     elevation_m |-> cur.elevation,
                     usgs_station_id |-> station_id,
                     usgs_gage_height_ft |-> out.ret,
                     flood_occurred |-> 1])
              /\ origin' = Append(origin, [alert |-> loop.i, year |-> loop.year,
                                           month |-> loop.month, date |-> cur.date])
    /\ cur' = NoCur
    /\ loop' = [loop EXCEPT !.i = @ + 1]
    /\ pc' = "pos"
    /\ UNCHANGED <<run, TARGET_STATE, MONTH_LIMIT, USGS_STATIONS, usgsFile, precipFile,
                   elevFile, nwsFiles, alerts, lastFetch>>

\* line 584: the positive loop is over, the negative loop starts
StartNegatives ==
    /\ pc = "pos"
    /\ loop.i > Len(alerts)
    /\ loop' = [loop EXCEPT !.i = 1]
    /\ pc' = "neg"
    /\ UNCHANGED <<run, TARGET_STATE, MONTH_LIMIT, USGS_STATIONS, usgsFile, precipFile,
                   elevFile, gageFile, nwsFiles, records, alerts, cur, lastCall,
                   lastFetch, origin, budget>>

\* lines 585-595: the negative record of alert loop.i up to get_precipitation
NegPrecip(Ps) ==
    /\ pc = "neg"
    /\ loop.i <= Len(alerts)
    /\ LET at == Located(alerts[loop.i])
       IN  IF ~at.ok
           THEN SkipRecord(at.why)
           ELSE \E dlat \in uniform_half, dlon \in uniform_half, days \in randint_1_28,
                   p \in Ps :
                   LET r1 == p[1]
                       r2 == p[2]
                       neg_lat == at.lat + dlat
                       neg_lon == at.lon + dlon
                       neg_date == AddDays(at.start_date, days)
                       out == get_precipitation(neg_lat, neg_lon, neg_date,
                                                precipFile, r1, r2)
                   IN  /\ Len(out.reqs) < 2 => r2 = r1
                       /\ budget' = Spend(0, out.reqs)
                       /\ precipFile' = out.file
                       /\ cur' = [busy |-> TRUE, lat |-> neg_lat, lon |-> neg_lon,
                                  date |-> neg_date, precip |-> out.ret,
                                  elevation |-> None]
                       /\ lastCall' = CallOf("precip",
                                         PrecipKey(neg_lat, neg_lon, neg_date), out)
                       /\ pc' = "neg_elev"
                       /\ UNCHANGED loop
    /\ UNCHANGED <<run, TARGET_STATE, MONTH_LIMIT, USGS_STATIONS, usgsFile, elevFile,
                   gageFile, nwsFiles, records, alerts, lastFetch, origin>>

\* line 596
NegElev(Ps) ==
    /\ pc = "neg_elev"
    /\ \E p \in Ps :
          LET r1 == p[1]
              r2 == p[2]
              out == get_elevation(cur.lat, cur.lon, elevFile, r1, r2)
          IN  /\ Len(out.reqs) < 2 => r2 = r1
              /\ budget' = Spend(0, out.reqs)
              /\ elevFile' = out.file
              /\ cur' = [cur EXCEPT !.elevation = out.ret]
              /\ lastCall' = CallOf("elev", ElevKey(cur.lat, cur.lon), out)
    /\ pc' = "neg_gage"
    /\ UNCHANGED <<run, TARGET_STATE, MONTH_LIMIT, USGS_STATIONS, usgsFile, precipFile,
                   gageFile, nwsFiles, records, loop, alerts, lastFetch, origin>>

InFront(list, x) == <<x>> \o list

\* faulty variant of NegGage: the negative record is put in front of the list
NegGageInFront(Ps) ==
    /\ pc = "neg_gage"
    /\ \E p \in Ps :
          LET r1 == p[1]
              r2 == p[2]
              station_id == find_nearest_usgs_station(cur.lat, cur.lon)
              out == get_usgs_gage_height(station_id, cur.date, gageFile, r1, r2)
          IN  /\ Len(out.reqs) < 2 => r2 = r1
              /\ budget' = Spend(0, out.reqs)
              /\ gageFile' = out.file
              /\ lastCall' = CallOf("gage", GageCallKey(station_id, cur.date), out)
              /\ records' = InFront(records,
                    [year |-> cur.date[1],
                     month |-> cur.date[2],
                     lat |-> cur.lat,
                     lon |-> cur.lon,
                     event |-> <<"None">>,
                     area |-> NoneText,
                     severity |-> "None",
                     certainty |-> "None",
                     urgency |-> "None",
                     precip_24h_mm |-> cur.precip,
                     elevation_m |-> cur.elevation,
                     usgs_station_id |-> station_id,
                     usgs_gage_height_ft |-> out.ret,
                     flood_occurred |-> 0])
              /\ origin' = InFront(origin, [alert |-> loop.i, year |-> loop.year,
                                           month |-> loop.month, date |-> cur.date])
    /\ cur' = NoCur
    /\ loop' = [loop EXCEPT !.i = @ + 1]
    /\ pc' = "neg"
    /\ UNCHANGED <<run, TARGET_STATE, MONTH_LIMIT, USGS_STATIONS, usgsFile, precipFile,
                   elevFile, nwsFiles, alerts, lastFetch>>

\* lines 598-617
NegGage(Ps) ==
    /\ pc = "neg_gage"
    /\ \E p \in Ps :
          LET r1 == p[1]
              r2 == p[2]
              station_id == find_nearest_usgs_station(cur.lat, cur.lon)
              out == get_usgs_gage_height(station_id, cur.date, gageFile, r1, r2)
          IN  /\ Len(out.reqs) < 2 => r2 = r1
              /\ budget' = Spend(0, out.reqs)
              /\ gageFile' = out.file
              /\ lastCall' = CallOf("gage", GageCallKey(station_id, cur.date), out)
              /\ records' = Append(records,
                    [year |-> cur.date[1],
                     month |-> cur.date[2],
                     lat |-> cur.lat,
                     lon |-> cur.lon,
                     event |-> <<"None">>,
                     area |-> NoneText,
                     severity |-> "None",
                     certainty |-> "None",
                     urgency |-> "None",
                     precip_24h_mm |-> cur.precip,
                     elevation_m |-> cur.elevation,
                     usgs_station_id |-> station_id,
                     usgs_gage_height_ft |-> out.ret,
                     flood_occurred |-> 0])
              /\ origin' = Append(origin, [alert |-> loop.i, year |-> loop.year,
                                           month |-> loop.month, date |-> cur.date])
    /\ cur' = NoCur
    /\ loop' = [loop EXCEPT !.i = @ + 1]
    /\ pc' = "neg"
    /\ UNCHANGED <<run, TARGET_STATE, MONTH_LIMIT, USGS_STATIONS, usgsFile, precipFile,
                   elevFile, nwsFiles, alerts, lastFetch>>

\* faulty variant of NextMonth: the year is the inner loop
NextMonthYearFirst ==
    /\ pc = "neg"
    /\ loop.i > Len(alerts)
    /\ IF loop.year < current_year
       THEN /\ loop' = [loop EXCEPT !.i = 1, !.year = @ + 1]
            /\ pc' = "fetch"
       ELSE IF loop.month < MONTH_LIMIT
       THEN /\ loop' = [loop EXCEPT !.i = 1, !.month = @ + 1,
                                    !.year = current_year - YEARS_BACK]
            /\ pc' = "fetch"
       ELSE /\ pc' = "csv"
            /\ UNCHANGED loop
    /\ UNCHANGED <<run, TARGET_STATE, MONTH_LIMIT, USGS_STATIONS, usgsFile, precipFile,
                   elevFile, gageFile, nwsFiles, records, alerts, cur, lastCall,
                   lastFetch, origin, budget>>

\* lines 543-544: the negative loop is over; the next (year, month), or the
\* end of the loops
NextMonth ==
    /\ pc = "neg"
    /\ loop.i > Len(alerts)
    /\ IF loop.month < MONTH_LIMIT
       THEN /\ loop' = [loop EXCEPT !.i = 1, !.month = @ + 1]
            /\ pc' = "fetch"
       ELSE IF loop.year < current_year
       THEN /\ loop' = [loop EXCEPT !.i = 1, !.month = 1, !.year = @ + 1]
            /\ pc' = "fetch"
       ELSE /\ pc' = "csv"
            /\ UNCHANGED loop
    /\ UNCHANGED <<run, TARGET_STATE, MONTH_LIMIT, USGS_STATIONS, usgsFile, precipFile,
                   elevFile, gageFile, nwsFiles, records, alerts, cur, lastCall,
                   lastFetch, origin, budget>>

\* lines 622-624: the records are handed to the CSV writer
WriteCsv ==
    /\ pc = "csv"
    /\ pc' = "done"
    /\ UNCHANGED <<run, TARGET_STATE, MONTH_LIMIT, USGS_STATIONS, usgsFile, precipFile,
                   elevFile, gageFile, nwsFiles, records, loop, alerts, cur, lastCall,
                   lastFetch, origin, budget>>

----------------------------------------------------------------------------
(* The external services as the pipeline sees them *)

stA == [properties |-> [monitoring_location_number |-> "08158000"],
        geometry |-> [type |-> "Point", coordinates |-> <<-9770000, 3030000>>]]
stB == [properties |-> [monitoring_location_number |-> "08429500"],
        geometry |-> [type |-> "Point", coordinates |-> <<-9778620, 3023440>>]]
stPolygon == [properties |-> [monitoring_location_number |-> "08000001"],
              geometry |-> [type |-> "Polygon", coordinates |-> <<>>]]
stNoProps == [geometry |-> [type |-> "Point", coordinates |-> <<-9770000, 3030000>>]]

StationBody(features) == Json([numberReturned |-> Len(features), features |-> features])

StationStub ==
    {ExcResp, Http(429, NoJson), Http(200, StationBody(<<>>)),
     Http(200, StationBody(<<stPolygon, stNoProps, stA, stB>>))}

IssueOn(date) == [valid |-> TRUE, date |-> date]

\* events of the given year: a county of the table, a county outside it, a
\* location of another state, a location that is not a string
EventStub(year) ==
    {[issue |-> IssueOn(<<year, 1, 31>>), locations |-> Text("Travis", "TX", {})],
     [issue |-> IssueOn(<<year, 1, 31>>), locations |-> Text("Zavala", "TX", {})],
     [issue |-> IssueOn(<<year, 1, 31>>), locations |-> Text("Dade", "FL", {})],
     [issue |-> IssueOn(<<year, 1, 31>>), locations |-> NotText]}

AlertStub(year) ==
    {Http(429, NoJson), Http(500, NoJson), Http(200, Json([events |-> <<>>]))}
        \cup {Http(200, Json([events |-> <<e>>])) : e \in EventStub(year)}

PrecipStub ==
    {ExcResp, Http(429, NoJson),
     Http(200, Json([results |-> <<[value |-> 5], [value |-> 7]>>]))}

ElevStub == {Http(429, NoJson), Http(200, Json([value |-> Float(150)]))}

GageStub ==
    {Http(429, NoJson), Http(500, NoJson),
     Http(200, Json([features |-> <<[value |-> Float(32)]>>]))}

----------------------------------------------------------------------------
(* One run of the pipeline *)

Init ==
    /\ run = 1
    /\ pc = "stations"
    /\ TARGET_STATE \in TargetStates
    /\ MONTH_LIMIT \in 1..MaxMonthLimit
    /\ USGS_STATIONS = <<>>
    /\ usgsFile = NoFile
    /\ precipFile = NoFile
    /\ elevFile = NoFile
    /\ gageFile = NoFile
    /\ nwsFiles = [ym \in YearMonths |-> NoFile]
    /\ records = <<>>
    /\ loop = LoopStart
    /\ alerts = <<>>
    /\ cur = NoCur
    /\ lastCall = NoCall
    /\ lastFetch = NoFetch
    /\ origin = <<>>
    /\ budget = [events |-> 0, faults |-> 0, sent |-> 0, queries |-> 0]

Next ==
    \/ LoadStationsRegion(Affordable(Answers(StationStub))) /\ WithinBudget
    \/ SaveStations(HealthyDisk)
    \/ StartMonths
    \/ FetchAlerts
    \/ QueryOffice(Affordable(Answers(AlertStub(loop.year)))) /\ WithinBudget
    \/ PersistAlerts(HealthyDisk)
    \/ StartPositives
    \/ PosPrecip(Affordable(Answers(PrecipStub))) /\ WithinBudget
    \/ PosElev(Affordable(Answers(ElevStub))) /\ WithinBudget
    \/ PosGage(Affordable(Answers(GageStub))) /\ WithinBudget
    \/ StartNegatives
    \/ NegPrecip(Affordable(Answers(PrecipStub))) /\ WithinBudget
    \/ NegElev(Affordable(Answers(ElevStub))) /\ WithinBudget
    \/ NegGage(Affordable(Answers(GageStub))) /\ WithinBudget
    \/ NextMonth
    \/ WriteCsv

Spec == Init /\ [][Next]_vars

----------------------------------------------------------------------------
(* The enrichment fetchers, called in any order over the same cache files *)

Fetchers == {"precip", "elev", "gage"}

\* two latitudes with the same four-decimal key, and one with another key
PrecipLats == {3026720, 3026724}
CallLats == PrecipLats \cup {3100000}
CallLons == {-9774310}
CallDates == {<<2023, 1, 31>>, <<2023, 2, 1>>}
CallStations == {None, Str("08158000"), Str("08429500")}

PrecipResponses ==
    {ExcResp, Http(429, NoJson), Http(500, NoJson), Http(200, NoJson),
     Http(200, Json([results |-> <<[value |-> 5], [value |-> 7]>>])),
     Http(200, Json([results |-> <<>>]))}

ElevResponses ==
    {ExcResp, Http(429, NoJson), Http(500, NoJson),
     Http(200, Json([value |-> Float(150)])),
     Http(200, Json([message |-> "no data"]))}

GageResponses ==
    {ExcResp, Http(429, NoJson), Http(500, NoJson),
     Http(200, Json([features |-> <<[value |-> Float(32)]>>])),
     Http(200, Json([features |-> <<>>]))}

\* a call of a fetcher, answered by a pair of Ps; the write of save_cache,
\* when the call gets to it, ends as one of Ws, and its exception is caught
\* inside save_cache (lines 262-263)
CallPrecipitation(Ps, Ws) ==
    /\ pc = "enrich"
    /\ \E lat \in PrecipLats, lon \in CallLons, date \in CallDates, p \in Ps, w \in Ws :
          LET out == get_precipitation(lat, lon, date, precipFile, p[1], p[2])
          IN  /\ Len(out.reqs) < 2 => p[2] = p[1]
              /\ out.file = precipFile => w = "ok"
              /\ precipFile' = FileAfter(w, precipFile, out.file)
              /\ lastCall' = CallOf("precip", PrecipKey(lat, lon, date), out)
    /\ UNCHANGED <<run, pc, TARGET_STATE, MONTH_LIMIT, USGS_STATIONS, usgsFile, elevFile,
                   gageFile, nwsFiles, records, loop, alerts, cur, lastFetch, origin,
                   budget>>

CallElevation(Ps, Ws) ==
    /\ pc = "enrich"
    /\ \E lat \in CallLats, lon \in CallLons, p \in Ps, w \in Ws :
          LET out == get_elevation(lat, lon, elevFile, p[1], p[2])
          IN  /\ Len(out.reqs) < 2 => p[2] = p[1]
              /\ out.file = elevFile => w = "ok"
              /\ elevFile' = FileAfter(w, elevFile, out.file)
              /\ lastCall' = CallOf("elev", ElevKey(lat, lon), out)
    /\ UNCHANGED <<run, pc, TARGET_STATE, MONTH_LIMIT, USGS_STATIONS, usgsFile,
                   precipFile, gageFile, nwsFiles, records, loop, alerts, cur, lastFetch,
                   origin, budget>>

CallGageHeight(Ps, Ws) ==
    /\ pc = "enrich"
    /\ \E station_id \in CallStations, p \in Ps, w \in Ws :
          LET date == <<2023, 1, 31>>
              out == get_usgs_gage_height(station_id, date, gageFile, p[1], p[2])
          IN  /\ Len(out.reqs) < 2 => p[2] = p[1]
              /\ out.file = gageFile => w = "ok"
              /\ gageFile' = FileAfter(w, gageFile, out.file)
              /\ lastCall' = CallOf("gage", GageCallKey(station_id, date), out)
    /\ UNCHANGED <<run, pc, TARGET_STATE, MONTH_LIMIT, USGS_STATIONS, usgsFile,
                   precipFile, elevFile, nwsFiles, records, loop, alerts, cur, lastFetch,
                   origin, budget>>

FetchInit ==
    /\ run = 1
    /\ pc = "enrich"
    /\ TARGET_STATE = None
    /\ MONTH_LIMIT = 1
    /\ USGS_STATIONS = <<>>
    /\ usgsFile = NoFile
    /\ precipFile = NoFile
    /\ elevFile = NoFile
    /\ gageFile = NoFile
    /\ nwsFiles = [ym \in YearMonths |-> NoFile]
    /\ records = <<>>
    /\ loop = LoopStart
    /\ alerts = <<>>
    /\ cur = NoCur
    /\ lastCall = NoCall
    /\ lastFetch = NoFetch
    /\ origin = <<>>
    /\ budget = [events |-> 0, faults |-> 0, sent |-> 0, queries |-> 0]

FetchNext ==
    \/ CallPrecipitation(Answers(PrecipResponses), HealthyDisk)
    \/ CallElevation(Answers(ElevResponses), HealthyDisk)
    \/ CallGageHeight(Answers(GageResponses), HealthyDisk)

FetchSpec == FetchInit /\ [][FetchNext]_vars

\* the cache file of a fetcher among the three files p, e, g
FileFor(fn, p, e, g) == IF fn = "precip" THEN p ELSE IF fn = "elev" THEN e ELSE g
\* the file holds an entry for the key
Stored(file, key) == file.exists /\ Parses(file) /\ key \in DOMAIN file.text

\* C1: a call of an enrichment fetcher whose key is already in the fetcher's
\* cache file issues no request and returns the stored value, also when the
\* stored value is null.
C1_CachedKeyIsNotRequested ==
    [][LET call == lastCall'
           file == FileFor(call.fn, precipFile, elevFile, gageFile)
       IN  (call # lastCall /\ call.fn \in Fetchers /\ Stored(file, call.key))
              => /\ call.reqs = <<>>
                 /\ call.ret = JsonDecode(file.text[call.key])]_vars

\* a call has just been answered from a key that is stored with null
C1_NullHit ==
    /\ lastCall.fn = "gage"
    /\ lastCall.reqs = <<>>
    /\ lastCall.ret = None
    /\ Stored(gageFile, lastCall.key)
    /\ gageFile.text[lastCall.key] = JNull

\* the first request of the call got status 429 and its retry failed, by an
\* exception or by its status
RetryFailed(call) ==
    /\ call.fn \in Fetchers
    /\ Len(call.reqs) = 2
    /\ call.reqs[1].kind = "http" /\ call.reqs[1].status = 429
    /\ call.reqs[2].kind = "exc" \/ call.reqs[2].status # 200

\* C2: when the first request of an enrichment fetch gets status 429 and the
\* retry fails too, the fetch returns None and null is stored under the key.
C2_FailedRetryIsCached ==
    RetryFailed(lastCall) =>
        LET file == FileFor(lastCall.fn, precipFile, elevFile, gageFile)
        IN  /\ lastCall.ret = None
            /\ Stored(file, lastCall.key)
            /\ file.text[lastCall.key] = JNull

\* the retry of a gage height fetch failed by its status, None was returned
\* and the key is not in the cache file
C2_FailedRetryNotStored ==
    /\ RetryFailed(lastCall)
    /\ lastCall.fn = "gage"
    /\ lastCall.reqs[2].kind = "http"
    /\ lastCall.ret = None
    /\ ~Stored(gageFile, lastCall.key)

\* C3: a key of an enrichment cache file keeps its value: no call removes
\* it, overwrites it or requests it again, also when the value is null.
C3_StoredKeyIsKept ==
    [][\A fn \in Fetchers :
          LET old == FileFor(fn, precipFile, elevFile, gageFile)
              new == FileFor(fn, precipFile', elevFile', gageFile')
          IN  old.exists =>
                 /\ new.exists
                 /\ \A k \in DOMAIN old.text :
                       /\ k \in DOMAIN new.text
                       /\ new.text[k] = old.text[k]
                       /\ (lastCall' # lastCall /\ lastCall'.fn = fn /\ lastCall'.key = k)
                             => lastCall'.reqs = <<>>]_vars

\* a call has just stored a second key next to a key that is stored with null
C3_StoredNextToNull ==
    /\ lastCall.fn = "precip"
    /\ Len(lastCall.reqs) >= 1
    /\ Stored(precipFile, lastCall.key)
    /\ \E k \in DOMAIN precipFile.text :
          k # lastCall.key /\ precipFile.text[k] = JNull

----------------------------------------------------------------------------
(* The station join, called for any point over any loaded station list *)

\* longest station list
MaxStations == 3

\* stations 5.50 km (twice), 1.11 km, exactly 25.00 km and 111 km from the
\* centroid of Travis county
JoinStations ==
    {StationOf(stA), StationOf(stB),
     [id |-> "08000002", lat |-> 3027720, lon |-> -9774310],
     [id |-> "08000003", lat |-> 3049243, lon |-> -9774310],
     [id |-> "08000004", lat |-> 3126720, lon |-> -9774310]}

RECURSIVE ListsUpTo(_, _)
\* the sequences over S of length <= n
ListsUpTo(S, n) ==
    IF n = 0 THEN {<<>>}
    ELSE LET shorter == ListsUpTo(S, n - 1)
         IN  shorter \cup {Append(l, x) : l \in shorter, x \in S}

JoinPoints == {county_coords.Travis, county_coords.Harris, <<3037000, -9774310>>}

CallNearest ==
    /\ pc = "join"
    /\ \E pt \in JoinPoints :
          lastCall' = [fn |-> "nearest", key |-> pt,
                       ret |-> find_nearest_usgs_station(pt[1], pt[2]), reqs |-> <<>>]
    /\ UNCHANGED <<run, pc, TARGET_STATE, MONTH_LIMIT, USGS_STATIONS, usgsFile,
                   precipFile, elevFile, gageFile, nwsFiles, records, loop, alerts, cur,
                   lastFetch, origin, budget>>

JoinInit ==
    /\ run = 1
    /\ pc = "join"
    /\ TARGET_STATE = None
    /\ MONTH_LIMIT = 1
    /\ USGS_STATIONS \in ListsUpTo(JoinStations, MaxStations)
    /\ usgsFile = NoFile
    /\ precipFile = NoFile
    /\ elevFile = NoFile
    /\ gageFile = NoFile
    /\ nwsFiles = [ym \in YearMonths |-> NoFile]
    /\ records = <<>>
    /\ loop = LoopStart
    /\ alerts = <<>>
    /\ cur = NoCur
    /\ lastCall = NoCall
    /\ lastFetch = NoFetch
    /\ origin = <<>>
    /\ budget = [events |-> 0, faults |-> 0, sent |-> 0, queries |-> 0]

JoinNext == CallNearest

JoinSpec == JoinInit /\ [][JoinNext]_vars

\* distance of the point from station i of the loaded list
Dist(lat, lon, i) == haversine(lat, lon, USGS_STATIONS[i].lat, USGS_STATIONS[i].lon)
\* the stations less than 25 km from the point
InRange(lat, lon) == {i \in 1..Len(USGS_STATIONS) : Dist(lat, lon, i) < Km(25)}
\* the first station of the list at the least distance from the point
FirstClosest(lat, lon) ==
    CHOOSE i \in InRange(lat, lon) :
        /\ \A j \in 1..Len(USGS_STATIONS) : Dist(lat, lon, i) <= Dist(lat, lon, j)
        /\ \A j \in 1..(i - 1) : Dist(lat, lon, j) # Dist(lat, lon, i)
Closest(lat, lon) ==
    IF InRange(lat, lon) = {} THEN None
    ELSE Str(USGS_STATIONS[FirstClosest(lat, lon)].id)

\* C4: find_nearest_usgs_station returns None when no loaded station is less
\* than 25 km from the point (also when none is loaded), and otherwise the id
\* of the first station of the list at the least distance.
C4_NearestIsFirstClosest ==
    lastCall.fn = "nearest" =>
        lastCall.ret = Closest(lastCall.key[1], lastCall.key[2])

\* two stations with different ids at the same least distance, the first of
\* them returned
C4_TieGoesToFirst ==
    /\ lastCall.fn = "nearest"
    /\ \E i, j \in InRange(lastCall.key[1], lastCall.key[2]) :
          /\ i < j
          /\ i = FirstClosest(lastCall.key[1], lastCall.key[2])
          /\ Dist(lastCall.key[1], lastCall.key[2], j)
                = Dist(lastCall.key[1], lastCall.key[2], i)
          /\ USGS_STATIONS[i].id # USGS_STATIONS[j].id
          /\ lastCall.ret = Str(USGS_STATIONS[i].id)

----------------------------------------------------------------------------
(* fetch_historical_flood_alerts, called for any month by runs with any      *)
(* target state over the same cache directory                               *)

\* events of the given year: the four of EventStub, a state spelled out, a
\* later month and an issue time that does not parse
EventSamples(year) ==
    EventStub(year) \cup
    {[issue |-> IssueOn(<<year, 1, 31>>), locations |-> Text("Scioto", "OH", {"Ohio"})],
     [issue |-> IssueOn(<<year, 2, 10>>), locations |-> Text("Travis", "TX", {})],
     [issue |-> [valid |-> FALSE], locations |-> Text("Travis", "TX", {})]}

AlertResponses(year) ==
    {Http(429, NoJson), Http(500, NoJson), Http(200, Json([events |-> <<>>]))}
        \cup {Http(200, Json([events |-> <<e>>])) : e \in EventSamples(year)}

\* a call of the function for one month of the current year
CallFetchAlerts ==
    /\ pc \in {"idle", "fetched"}
    /\ \E year \in {current_year}, month \in 1..MaxMonth :
          loop' = [LoopStart EXCEPT !.year = year, !.month = month]
    /\ pc' = "fetch"
    /\ UNCHANGED <<run, TARGET_STATE, MONTH_LIMIT, USGS_STATIONS, usgsFile, precipFile,
                   elevFile, gageFile, nwsFiles, records, alerts, cur, lastCall,
                   lastFetch, origin, budget>>

\* the process ends and the next one starts with its own --state (lines 34-35)
\* over the same cache directory
AlertsNewRun ==
    /\ pc \in {"idle", "fetched"}
    /\ run < MaxRuns
    /\ run' = run + 1
    /\ TARGET_STATE' \in TargetStates
    /\ pc' = "idle"
    /\ loop' = LoopStart
    /\ alerts' = <<>>
    /\ lastFetch' = NoFetch
    /\ budget' = [events |-> 0, faults |-> 0, sent |-> 0, queries |-> 0]
    /\ UNCHANGED <<MONTH_LIMIT, USGS_STATIONS, usgsFile, precipFile, elevFile, gageFile,
                   nwsFiles, records, cur, lastCall, origin>>

AlertInit ==
    /\ run = 1
    /\ pc = "idle"
    /\ TARGET_STATE \in TargetStates
    /\ MONTH_LIMIT = 1
    /\ USGS_STATIONS = <<>>
    /\ usgsFile = NoFile
    /\ precipFile = NoFile
    /\ elevFile = NoFile
    /\ gageFile = NoFile
    /\ nwsFiles = [ym \in YearMonths |-> NoFile]
    /\ records = <<>>
    /\ loop = LoopStart
    /\ alerts = <<>>
    /\ cur = NoCur
    /\ lastCall = NoCall
    /\ lastFetch = NoFetch
    /\ origin = <<>>
    /\ budget = [events |-> 0, faults |-> 0, sent |-> 0, queries |-> 0]

AlertNext ==
    \/ CallFetchAlerts
    \/ FetchAlerts
    \/ QueryOffice(Affordable(Answers(AlertResponses(loop.year)))) /\ WithinBudget
    \/ PersistAlerts(HealthyDisk)
    \/ AlertsNewRun

AlertSpec == AlertInit /\ [][AlertNext]_vars

\* a call of fetch_historical_flood_alerts returns in this step
FetchReturns == pc # "fetched" /\ pc' = "fetched"

\* C5: a fetch that finds no cache file leaves a file that holds exactly the
\* list it returns, also an empty list; a fetch that finds the file returns
\* its content as it is and issues no request; the file is never rewritten.
C5_AlertFileHoldsReturnedList ==
    [][/\ \A ym \in YearMonths : nwsFiles[ym].exists => nwsFiles'[ym] = nwsFiles[ym]
       /\ FetchReturns =>
             LET ym == <<lastFetch'.year, lastFetch'.month>>
             IN  /\ nwsFiles'[ym].exists
                 /\ nwsFiles'[ym].text = DumpAlerts(lastFetch'.ret)
                 /\ nwsFiles[ym].exists => lastFetch'.nreq = 0]_vars

\* a later run has got the empty list of an earlier run from the file
C5_EmptyListFromFile ==
    /\ pc = "fetched"
    /\ run = 2
    /\ lastFetch.cached
    /\ lastFetch.nreq = 0
    /\ lastFetch.ret = <<>>

\* C6: no alert returned by fetch_historical_flood_alerts(year, month) has a
\* month of issue other than month, from the offices or from the cache file.
C6_ReturnedAlertsAreOfTheMonth ==
    lastFetch.year # 0 =>
        \A i \in 1..Len(lastFetch.ret) :
            /\ lastFetch.ret[i].issue_timestamp.valid
            /\ lastFetch.ret[i].issue_timestamp.date[2] = lastFetch.month

\* the offices offered an event of another month and the call returned an
\* alert of its own month only
C6_OtherMonthDropped ==
    /\ pc = "fetched"
    /\ ~lastFetch.cached
    /\ lastFetch.offered = {1, 2}
    /\ Len(lastFetch.ret) = 1

\* C7: with a target state set, every alert returned by
\* fetch_historical_flood_alerts has a location text with the state's tag or
\* name, also in a run whose target state is not the one of the run that
\* wrote the cache file.
C7_ReturnedAlertsMatchTarget ==
    (Truthy(TARGET_STATE) /\ lastFetch.year # 0) =>
        \A i \in 1..Len(lastFetch.ret) :
            LET locations == lastFetch.ret[i].properties.areaDesc
            IN  /\ locations.text
                /\ \/ HasTag(locations, state_to_find)
                   \/ HasName(locations, TARGET_STATE.v)

\* a run for Texas has got, from the file an earlier run wrote, an alert
\* whose location has neither the tag nor the name of Texas
C7_OtherStateFromFile ==
    /\ pc = "fetched"
    /\ run = 2
    /\ TARGET_STATE = Str("Texas")
    /\ lastFetch.cached
    /\ \E i \in 1..Len(lastFetch.ret) :
          LET locations == lastFetch.ret[i].properties.areaDesc
          IN  locations.text /\ ~HasTag(locations, "TX") /\ ~HasName(locations, "Texas")

----------------------------------------------------------------------------
(* The records of a run of the pipeline *)

\* the (year, month) pairs of the run's loops
RunMonths == YEARS \X (1..MONTH_LIMIT)
\* the alert list of a (year, month) the run has fetched
AlertsOf(ym) == LoadAlerts(nwsFiles[ym].text)
\* the records with the given flood_occurred that alert i of (year, month) led to
RecordsOf(ym, i, flag) ==
    {k \in 1..Len(records) :
        /\ origin[k].year = ym[1] /\ origin[k].month = ym[2] /\ origin[k].alert = i
        /\ records[k].flood_occurred = flag}
\* the try block of the alert's record raises: the centroid, or the onset date
Raises(alert) ==
    LET c == get_alert_centroid(alert)
    IN  c.raised \/ (c.lat # None /\ ~alert.properties.onset.valid)
\* the alert has a centroid and its record raises nothing
HasCentroid(alert) ==
    LET c == get_alert_centroid(alert)
    IN  ~c.raised /\ c.lat # None /\ alert.properties.onset.valid

\* days from 1 January of year 2000 to the date
DaysBeforeYear(y) == 365 * (y - 2000) + Cardinality({z \in 2000..(y - 1) : IsLeap(z)})
RECURSIVE DaysBeforeMonth(_, _)
DaysBeforeMonth(y, m) ==
    IF m = 1 THEN 0 ELSE DaysInMonth(y, m - 1) + DaysBeforeMonth(y, m - 1)
DayNumber(date) == DaysBeforeYear(date[1]) + DaysBeforeMonth(date[1], date[2]) + date[3]

\* C8: when the run is over, every fetched alert that has a centroid and
\* raises nothing has exactly one record with flood_occurred = 1, with the
\* alert's centroid, its event fields and the nearest station within 25 km of
\* the centroid, and exactly one record with flood_occurred = 0, at another
\* date and with the station nearest to its own coordinate; every other alert
\* has no record, and every record belongs to an alert.
C8_OnePositiveOneNegative ==
    pc = "done" =>
        /\ \A k \in 1..Len(records) :
              /\ <<origin[k].year, origin[k].month>> \in RunMonths
              /\ origin[k].alert \in 1..Len(AlertsOf(<<origin[k].year, origin[k].month>>))
        /\ \A ym \in RunMonths : \A i \in 1..Len(AlertsOf(ym)) :
              LET alert == AlertsOf(ym)[i]
                  c == get_alert_centroid(alert)
                  pos == RecordsOf(ym, i, 1)
                  neg == RecordsOf(ym, i, 0)
              IN  IF HasCentroid(alert)
                  THEN /\ Cardinality(pos) = 1
                       /\ Cardinality(neg) = 1
                       /\ \A k \in pos :
                             /\ records[k].year = ym[1] /\ records[k].month = ym[2]
                             /\ records[k].lat = c.lat.v /\ records[k].lon = c.lon.v
                             /\ records[k].event = alert.properties.event
                             /\ records[k].area = alert.properties.areaDesc
                             /\ records[k].severity = alert.properties.severity
                             /\ records[k].certainty = alert.properties.certainty
                             /\ records[k].urgency = alert.properties.urgency
                             /\ records[k].usgs_station_id = Closest(c.lat.v, c.lon.v)
                       /\ \A k \in neg :
                             /\ origin[k].date # alert.properties.onset.date
                             /\ records[k].year = origin[k].date[1]
                             /\ records[k].month = origin[k].date[2]
                             /\ records[k].usgs_station_id
                                   = Closest(records[k].lat, records[k].lon)
                  ELSE pos = {} /\ neg = {}

\* the run is over and an alert has its positive record with a station, and
\* its negative record
C8_RecordWithStation ==
    /\ pc = "done"
    /\ \E ym \in RunMonths : \E i \in 1..Len(AlertsOf(ym)) :
          /\ HasCentroid(AlertsOf(ym)[i])
          /\ \E k \in RecordsOf(ym, i, 1) : records[k].usgs_station_id # None
          /\ RecordsOf(ym, i, 0) # {}

\* C9: a record with flood_occurred = 0 has a latitude and a longitude within
\* 0.5 degree of the alert's centroid, and its lookups use a date 1 to 28 days
\* after the alert's onset date.
C9_NegativeSampleInRange ==
    \A k \in 1..Len(records) :
        records[k].flood_occurred = 0 =>
            LET alert == AlertsOf(<<origin[k].year, origin[k].month>>)[origin[k].alert]
                c == get_alert_centroid(alert)
                days == DayNumber(origin[k].date) - DayNumber(alert.properties.onset.date)
            IN  /\ Abs(records[k].lat - c.lat.v) <= 50000
                /\ Abs(records[k].lon - c.lon.v) <= 50000
                /\ days >= 1 /\ days <= 28
                /\ records[k].precip_24h_mm # None =>
                      Stored(precipFile,
                             PrecipKey(records[k].lat, records[k].lon, origin[k].date))
                /\ records[k].usgs_gage_height_ft # None =>
                      Stored(gageFile,
                             GageKey(records[k].usgs_station_id, origin[k].date))

\* a negative record half a degree north of the centroid, 28 days after the
\* onset date, in the month after the alert's
C9_FarthestSample ==
    \E k \in 1..Len(records) :
        /\ records[k].flood_occurred = 0
        /\ LET alert == AlertsOf(<<origin[k].year, origin[k].month>>)[origin[k].alert]
           IN  /\ records[k].lat - get_alert_centroid(alert).lat.v = 50000
               /\ DayNumber(origin[k].date) - DayNumber(alert.properties.onset.date) = 28
               /\ records[k].month # origin[k].month

\* the first sequence is the start of the second
IsPrefix(a, b) == Len(a) <= Len(b) /\ SubSeq(b, 1, Len(a)) = a

\* C10: an exception in the try block of one record skips that record only:
\* the loop goes on to the next alert with the records kept, no step of the
\* record loops ends the run or takes a record away, and the run ends with
\* every (year, month) fetched.
C10_ExceptionSkipsOneRecord ==
    [][/\ pc # "stations" => pc' # "aborted"
       /\ IsPrefix(records, records')
       /\ (pc \in {"pos", "neg"} /\ loop.i <= Len(alerts) /\ Raises(alerts[loop.i]))
             => /\ pc' = pc
                /\ loop' = [loop EXCEPT !.i = @ + 1]
                /\ records' = records
       /\ pc' = "done" => \A ym \in RunMonths : nwsFiles'[ym].exists]_vars

\* the run is over; one alert of a month raised and another alert of that
\* month has its two records
C10_SkippedAndKept ==
    /\ pc = "done"
    /\ \E ym \in RunMonths : \E i, j \in 1..Len(AlertsOf(ym)) :
          /\ Raises(AlertsOf(ym)[i])
          /\ RecordsOf(ym, i, 1) = {} /\ RecordsOf(ym, i, 0) = {}
          /\ RecordsOf(ym, j, 1) # {} /\ RecordsOf(ym, j, 0) # {}

----------------------------------------------------------------------------
(* The regions of load_usgs_stations *)

\* the response the data of a logged query was taken from: the last of its
\* requests, when it has status 200 and a JSON body
Accepted(entry) ==
    LET r == entry.reqs[Len(entry.reqs)]
    IN  r.kind = "http" /\ r.status = 200 /\ r.body.json
\* the accepted response says that nothing was found
ZeroResults(entry) ==
    /\ Accepted(entry)
    /\ LET data == entry.reqs[Len(entry.reqs)].body
       IN  "numberReturned" \in DOMAIN data /\ data.numberReturned = 0

\* C11: when the response accepted for a region of load_usgs_stations says
\* that zero stations were returned, the run is aborted, for the first
\* response and for the response to the retry after a 429 alike.
C11_ZeroResultsAbortRun ==
    (\E i \in 1..Len(loop.log) : ZeroResults(loop.log[i])) => pc = "aborted"

\* the retry of a region was answered with zero stations and build_dataset
\* has gone on to its first alert fetch
C11_ZeroOnRetryGoesOn ==
    /\ pc = "fetch"
    /\ \E i \in 1..Len(loop.log) :
          /\ Len(loop.log[i].reqs) = 2
          /\ ZeroResults(loop.log[i])

----------------------------------------------------------------------------
(* The cache files on a disk that fails: files that do not parse, left by   *)
(* an earlier process, and writes that fail.  Three uses of the disk, each  *)
(* on its own: the enrichment fetchers, fetch_historical_flood_alerts of    *)
(* one run, load_usgs_stations of one run.                                   *)

\* the files an earlier process can have left where a cache file is looked for
LeftBehind == {NoFile, CorruptFile}

StationResponses ==
    {ExcResp, Http(429, NoJson), Http(500, NoJson), Http(200, StationBody(<<>>)),
     Http(200, StationBody(<<stPolygon, stNoProps, stA, stB>>)),
     Http(200, StationBody(<<stB>>))}

DiskInit ==
    /\ run = 1
    /\ pc \in {"enrich", "idle", "stations"}
    /\ TARGET_STATE \in (IF pc = "enrich" THEN {None} ELSE TargetStates)
    /\ MONTH_LIMIT = 1
    /\ USGS_STATIONS = <<>>
    /\ usgsFile \in (IF pc = "stations"
                     THEN LeftBehind \cup {FileOf(<<StationOf(stA)>>)}
                     ELSE {NoFile})
    /\ precipFile \in (IF pc = "enrich" THEN LeftBehind ELSE {NoFile})
    /\ elevFile \in (IF pc = "enrich" THEN LeftBehind ELSE {NoFile})
    /\ gageFile \in (IF pc = "enrich" THEN LeftBehind ELSE {NoFile})
    /\ nwsFiles \in {[ym \in YearMonths |-> IF ym = <<current_year, 1>> THEN f ELSE NoFile] :
                        f \in (IF pc = "idle" THEN LeftBehind ELSE {NoFile})}
    /\ records = <<>>
    /\ loop = LoopStart
    /\ alerts = <<>>
    /\ cur = NoCur
    /\ lastCall = NoCall
    /\ lastFetch = NoFetch
    /\ origin = <<>>
    /\ budget = [events |-> 0, faults |-> 0, sent |-> 0, queries |-> 0]

DiskNext ==
    \/ CallPrecipitation(Answers(PrecipStub), WriteOutcomes)
    \/ CallElevation(Answers(ElevStub), WriteOutcomes)
    \/ CallGageHeight(Answers(GageStub), WriteOutcomes)
    \/ CallFetchAlerts
    \/ FetchAlerts
    \/ QueryOffice(Affordable(Answers(AlertStub(loop.year)))) /\ WithinBudget
    \/ PersistAlerts(WriteOutcomes)
    \/ LoadStationsRegion(Answers(StationResponses))
    \/ SaveStations(WriteOutcomes)

DiskSpec == DiskInit /\ [][DiskNext]_vars

\* the file is there and json.load returns its content
Readable(file) == file.exists /\ Parses(file)

\* C12: a cache file that is missing or does not parse is loaded as an empty
\* cache and nothing is raised: an enrichment fetcher goes on to its request,
\* and fetch_historical_flood_alerts goes on to query its offices.
C12_UnreadableCacheLoadsEmpty ==
    [][/\ (pc = "fetch" /\ ~Readable(nwsFiles[<<loop.year, loop.month>>]))
             => pc' = "office"
       /\ \A fn \in Fetchers :
             (/\ lastCall' # lastCall
              /\ lastCall'.fn = fn
              /\ lastCall'.key # <<>>
              /\ ~Readable(FileFor(fn, precipFile, elevFile, gageFile)))
                => pc' = pc /\ lastCall'.reqs # <<>>]_vars

\* fetch_historical_flood_alerts has found a file that does not parse and the
\* exception of json.load has ended the run before any office was queried
C12_CorruptAlertFileRaises ==
    /\ pc = "raised"
    /\ loop.calls = <<<<current_year, 1>>>>
    /\ nwsFiles[<<current_year, 1>>] = CorruptFile
    /\ loop.log = <<>>
    /\ loop.i = 1

\* the step attempts the write of the alert file, of the station file
WritesAlerts == pc = "office" /\ loop.i > Len(Wfos)
WritesStations == pc = "stations" /\ loop.i > Len(state_codes)

\* C13: a write of a cache file that fails ends nothing: the function that
\* attempted it returns its value and the run goes on, for the files of the
\* fetchers, the station file and the alert files.
C13_WriteFailureIsSwallowed ==
    [][/\ WritesAlerts => (pc' = "fetched" /\ lastFetch'.ret = loop.acc)
       /\ WritesStations => pc' = "loaded"
       /\ lastCall' # lastCall => pc' = pc]_vars

\* the write of the alert file stopped half way: the file does not parse and
\* the exception has ended the run after the last office
C13_AlertWriteRaises ==
    /\ pc = "raised"
    /\ loop.i > Len(Wfos)
    /\ Len(loop.log) = Len(Wfos)
    /\ nwsFiles[<<loop.year, loop.month>>] = CorruptFile

----------------------------------------------------------------------------
(* The failures of the enrichment fetchers *)

\* C14: a call of get_precipitation that sends a request and does not end
\* with a 200 response that parses (the request raised, the status is not
\* 200, the body is not JSON) returns None and stores null under its key.
C14_PrecipFailureIsCachedNull ==
    (lastCall.fn = "precip" /\ lastCall.reqs # <<>> /\ ~Accepted(lastCall)) =>
        /\ lastCall.ret = None
        /\ Stored(precipFile, lastCall.key)
        /\ precipFile.text[lastCall.key] = JNull

\* the only request of a get_precipitation call raised, None was returned and
\* the key is not in the cache file
C14_PrecipExceptionNotStored ==
    /\ lastCall.fn = "precip"
    /\ lastCall.reqs = <<ExcResp>>
    /\ lastCall.ret = None
    /\ ~Stored(precipFile, lastCall.key)

\* C15: get_usgs_gage_height without a station id returns None, sends no
\* request and leaves the gage-height cache file as it is.
C15_AbsentStationDoesNothing ==
    [][(lastCall' # lastCall /\ lastCall'.fn = "gage" /\ lastCall'.key = <<>>)
          => /\ lastCall'.ret = None
             /\ lastCall'.reqs = <<>>
             /\ gageFile' = gageFile]_vars

\* a call without a station id has returned next to a cache file that holds
\* the keys of earlier calls
C15_AbsentStationNextToStored ==
    /\ lastCall.fn = "gage"
    /\ lastCall.key = <<>>
    /\ lastCall.ret = None
    /\ Readable(gageFile)
    /\ DOMAIN gageFile.text # {}
    /\ <<>> \notin DOMAIN gageFile.text

\* C17: one call of an enrichment fetcher sends at most two requests, and a
\* second one only after the first was answered with status 429.
C17_SecondRequestOnlyAfter429 ==
    lastCall.fn \in Fetchers =>
        /\ Len(lastCall.reqs) <= 2
        /\ Len(lastCall.reqs) = 2 =>
              lastCall.reqs[1].kind = "http" /\ lastCall.reqs[1].status = 429

\* a gage height call has sent a second request after a first one that was
\* answered with status 500
C17_RetryAfter500 ==
    /\ lastCall.fn = "gage"
    /\ Len(lastCall.reqs) = 2
    /\ lastCall.reqs[1].kind = "http"
    /\ lastCall.reqs[1].status = 500

----------------------------------------------------------------------------
(* save_cache followed by load_cache, for any mapping *)

\* keys of three calls, and values: None, zero, a positive and a negative one
MappingKeys ==
    {PrecipKey(3026720, -9774310, <<2023, 1, 31>>),
     PrecipKey(3026720, -9774310, <<2023, 2, 1>>),
     PrecipKey(3100000, -9900000, <<2023, 1, 31>>)}
MappingValues == {None, Float(0), Float(12), Float(-5)}
\* the mappings from some of the keys to the values
Mappings == UNION {[S -> MappingValues] : S \in SUBSET MappingKeys}

\* save_cache(PRECIPITATION_CACHE_FILE, cache_data), over whatever is there
SaveCache ==
    /\ pc = "cache_data"
    /\ precipFile' = save_cache(cur.cache_data)
    /\ pc' = "saved"
    /\ UNCHANGED <<run, TARGET_STATE, MONTH_LIMIT, USGS_STATIONS, usgsFile, elevFile,
                   gageFile, nwsFiles, records, loop, alerts, cur, lastCall, lastFetch,
                   origin, budget>>

\* load_cache(PRECIPITATION_CACHE_FILE)
LoadCache ==
    /\ pc = "saved"
    /\ cur' = [busy |-> TRUE, cache_data |-> cur.cache_data,
               loaded |-> load_cache(precipFile)]
    /\ pc' = "reloaded"
    /\ UNCHANGED <<run, TARGET_STATE, MONTH_LIMIT, USGS_STATIONS, usgsFile, precipFile,
                   elevFile, gageFile, nwsFiles, records, loop, alerts, lastCall,
                   lastFetch, origin, budget>>

RoundTripInit ==
    /\ run = 1
    /\ pc = "cache_data"
    /\ TARGET_STATE = None
    /\ MONTH_LIMIT = 1
    /\ USGS_STATIONS = <<>>
    /\ usgsFile = NoFile
    /\ precipFile \in LeftBehind
    /\ elevFile = NoFile
    /\ gageFile = NoFile
    /\ nwsFiles = [ym \in YearMonths |-> NoFile]
    /\ records = <<>>
    /\ loop = LoopStart
    /\ alerts = <<>>
    /\ cur \in {[busy |-> TRUE, cache_data |-> m] : m \in Mappings}
    /\ lastCall = NoCall
    /\ lastFetch = NoFetch
    /\ origin = <<>>
    /\ budget = [events |-> 0, faults |-> 0, sent |-> 0, queries |-> 0]

RoundTripNext == SaveCache \/ LoadCache

RoundTripSpec == RoundTripInit /\ [][RoundTripNext]_vars

----------------------------------------------------------------------------
(* The loops of build_dataset over several months of each year, with        *)
(* services that answer                                                      *)

\* largest --months value of these runs
MaxLoopMonths == 2

LoopInit ==
    /\ run = 1
    /\ pc = "stations"
    /\ TARGET_STATE \in TargetStates
    /\ MONTH_LIMIT \in 1..MaxLoopMonths
    /\ USGS_STATIONS = <<>>
    /\ usgsFile = NoFile
    /\ precipFile = NoFile
    /\ elevFile = NoFile
    /\ gageFile = NoFile
    /\ nwsFiles = [ym \in YearMonths |-> NoFile]
    /\ records = <<>>
    /\ loop = LoopStart
    /\ alerts = <<>>
    /\ cur = NoCur
    /\ lastCall = NoCall
    /\ lastFetch = NoFetch
    /\ origin = <<>>
    /\ budget = [events |-> 0, faults |-> 0, sent |-> 0, queries |-> 0]

LoopNext ==
    \/ LoadStationsRegion(Answers({Http(200, StationBody(<<stA, stB>>))}))
    \/ SaveStations(HealthyDisk)
    \/ StartMonths
    \/ FetchAlerts
    \/ QueryOffice(Answers({Http(200, Json([events |-> <<>>])),
                            Http(200, Json([events |->
                               <<[issue |-> IssueOn(<<loop.year, loop.month, 10>>),
                                  locations |-> Text("Travis", "TX", {})]>>]))}))
          /\ WithinBudget
    \/ PersistAlerts(HealthyDisk)
    \/ StartPositives
    \/ PosPrecip(Answers({Http(200, Json([results |-> <<[value |-> 5]>>]))}))
    \/ PosElev(Answers({Http(200, Json([value |-> Float(150)]))}))
    \/ PosGage(Answers({Http(200, Json([features |-> <<[value |-> Float(32)]>>]))}))
    \/ StartNegatives
    \/ NegPrecip(Answers({Http(200, Json([results |-> <<[value |-> 5]>>]))}))
    \/ NegElev(Answers({Http(200, Json([value |-> Float(150)]))}))
    \/ NegGage(Answers({Http(200, Json([features |-> <<[value |-> Float(32)]>>]))}))
    \/ NextMonth
    \/ WriteCsv

LoopSpec == LoopInit /\ [][LoopNext]_vars

\* the (year, month) pairs of the run: the years from current_year - YEARS_BACK
\* to current_year, and for each year the months from 1 to MONTH_LIMIT
MonthsInOrder ==
    [k \in 1..((YEARS_BACK + 1) * MONTH_LIMIT) |->
        <<current_year - YEARS_BACK + ((k - 1) \div MONTH_LIMIT),
          1 + ((k - 1) % MONTH_LIMIT)>>]

----------------------------------------------------------------------------
(* Offices that fail during a fetch of alerts *)

\* requests of one run that fail, in the runs of this section: enough for a
\* rate limit followed by a retry that fails
MaxOfficeFaults == 2

OfficeNext ==
    \/ CallFetchAlerts
    \/ FetchAlerts
    \/ QueryOffice(Answers(AlertStub(loop.year)))
          /\ budget'.events <= MaxEvents
          /\ budget'.faults <= MaxOfficeFaults
    \/ PersistAlerts(HealthyDisk)

OfficeSpec == AlertInit /\ [][OfficeNext]_vars

\* the office of a log entry answered: its last response has no error status
\* and a JSON body
Answered(entry) ==
    LET r == entry.reqs[Len(entry.reqs)]
    IN  r.kind = "http" /\ ~RaisesHttpError(r) /\ r.body.json

\* the alerts of the events of one answer that match the month and the target
MatchingAlerts(entry, month) ==
    LET r == entry.reqs[Len(entry.reqs)]
        events == IF "events" \in DOMAIN r.body THEN r.body.events ELSE <<>>
        kept == SelectSeq(events, LAMBDA event : EventKept(event, month))
    IN  [i \in 1..Len(kept) |-> AlertOf(kept[i])]

RECURSIVE AlertsOfAnswered(_, _)
\* the matching alerts of the offices of a log that answered, in log order
AlertsOfAnswered(log, month) ==
    IF log = <<>> THEN <<>>
    ELSE AlertsOfAnswered(SubSeq(log, 1, Len(log) - 1), month)
            \o (IF Answered(log[Len(log)])
                THEN MatchingAlerts(log[Len(log)], month) ELSE <<>>)

\* C19: in a fetch that is not served from the cache every office is queried,
\* in list order, whatever the outcome of the offices before it; the list
\* returned holds the matching alerts of every office that answered, and it is
\* written to the cache file of the (year, month) after the last office and
\* at no other time.
C19_FailedOfficeIsSkipped ==
    [][/\ (pc = "office" /\ pc' = "office") =>
             /\ Len(loop.log) < Len(Wfos)
             /\ Len(loop'.log) = Len(loop.log) + 1
             /\ SubSeq(loop'.log, 1, Len(loop.log)) = loop.log
             /\ loop'.log[Len(loop'.log)].query = Wfos[Len(loop'.log)]
             /\ nwsFiles' = nwsFiles
       /\ (pc = "office" /\ pc' = "fetched") =>
             /\ Len(loop.log) = Len(Wfos)
             /\ \A i \in 1..Len(Wfos) : loop.log[i].query = Wfos[i]
             /\ lastFetch'.ret = AlertsOfAnswered(loop.log, loop.month)
             /\ alerts' = lastFetch'.ret
             /\ nwsFiles' = [nwsFiles EXCEPT ![<<loop.year, loop.month>>] =
                                FileOf(DumpAlerts(lastFetch'.ret))]
       /\ pc # "office" => nwsFiles' = nwsFiles]_vars

\* every office of a fetch has been queried: one was rate limited and its
\* retry failed, a later one answered, and its alert is in the list that is
\* about to be written and returned
C19_AlertAfterFailedRetry ==
    /\ pc = "office"
    /\ loop.i > Len(Wfos)
    /\ Len(loop.log) = Len(Wfos)
    /\ \E i, j \in 1..Len(loop.log) :
          /\ i < j
          /\ Len(loop.log[i].reqs) = 2
          /\ ~Answered(loop.log[i])
          /\ Answered(loop.log[j])
          /\ MatchingAlerts(loop.log[j], loop.month) # <<>>
    /\ loop.acc # <<>>
    /\ ~nwsFiles[<<loop.year, loop.month>>].exists

----------------------------------------------------------------------------
(* The station list and its file *)

\* the stations of the Point features of one answer, in feature order
PointStations(entry) ==
    LET r == entry.reqs[Len(entry.reqs)]
        features == IF "features" \in DOMAIN r.body THEN r.body.features ELSE <<>>
        kept == SelectSeq(features, FeatureKept)
    IN  [i \in 1..Len(kept) |-> StationOf(kept[i])]

RECURSIVE StationsOfAnswered(_)
\* the stations of the regions of a log that answered, in log order
StationsOfAnswered(log) ==
    IF log = <<>> THEN <<>>
    ELSE StationsOfAnswered(SubSeq(log, 1, Len(log) - 1))
            \o (IF Answered(log[Len(log)]) THEN PointStations(log[Len(log)]) ELSE <<>>)

----------------------------------------------------------------------------
(* get_alert_centroid over alerts with and without a geometry *)

\* the alerts of the calls. "geometry": null, a Point, Polygons of zero to
\* three ring vertices and a type the function does not handle, the pairs
\* being [longitude, latitude]. "areaDesc": no text, a number, counties inside
\* and outside the table with several tags
CentroidInit ==
    /\ run = 1
    /\ pc = "centroid"
    /\ TARGET_STATE \in TargetStates
    /\ MONTH_LIMIT = 1
    /\ USGS_STATIONS = <<>>
    /\ usgsFile = NoFile
    /\ precipFile = NoFile
    /\ elevFile = NoFile
    /\ gageFile = NoFile
    /\ nwsFiles = [ym \in YearMonths |-> NoFile]
    /\ records = <<>>
    /\ loop = LoopStart
    /\ LET ptA == <<-9774310, 3026720>>
           ptB == <<-9536980, 2976040>>
           ptC == <<-9900000, 3100000>>
           GeometrySamples ==
               {None,
                [type |-> "Point", coordinates |-> ptA],
                [type |-> "Polygon", coordinates |-> <<<<>>>>],
                [type |-> "Polygon", coordinates |-> <<<<ptA>>>>],
                [type |-> "Polygon", coordinates |-> <<<<ptA, ptB>>>>],
                [type |-> "Polygon", coordinates |-> <<<<ptA, ptB, ptC>>>>],
                [type |-> "LineString", coordinates |-> <<ptA, ptB>>]}
           AreaSamples ==
               {EmptyText, NotText, Text("Travis", "TX", {}), Text("Zavala", "TX", {}),
                Text("Dade", "FL", {}), Text("Travis", "FL", {}),
                Text("Scioto", "OH", {"Ohio"}), Text("", "TX", {}), Text("Zavala", "", {})}
       IN  alerts \in {<<[properties |-> [areaDesc |-> area_desc], geometry |-> geom]>> :
                          area_desc \in AreaSamples, geom \in GeometrySamples}
    /\ cur = NoCur
    /\ lastCall = NoCall
    /\ lastFetch = NoFetch
    /\ origin = <<>>
    /\ budget = [events |-> 0, faults |-> 0, sent |-> 0, queries |-> 0]

\* one call of get_alert_centroid(alerts[0])
CallCentroid ==
    /\ pc = "centroid"
    /\ pc' = "located"
    /\ lastCall' = [fn |-> "centroid", ret |-> get_alert_centroid(alerts[1])]
    /\ UNCHANGED <<run, TARGET_STATE, MONTH_LIMIT, USGS_STATIONS, usgsFile,
                   precipFile, elevFile, gageFile, nwsFiles, records, loop, alerts, cur,
                   lastFetch, origin, budget>>

CentroidSpec == CentroidInit /\ [][CallCentroid]_vars

\* the tag of the target region ("TX" for Texas), when the run has a target
\* whose tag is known
TargetTag ==
    IF Truthy(TARGET_STATE) /\ TARGET_STATE.v \in DOMAIN state_abbrevs
    THEN {state_abbrevs[TARGET_STATE.v]} ELSE {}

\* n is the mean of the axis k of the ring, rounded down
IsMean(n, ring, k) ==
    /\ n * Len(ring) <= SumAxis(ring, k)
    /\ SumAxis(ring, k) < (n + 1) * Len(ring)

\* the first rule of the precedence that applies to the alert
RuleOf(alert) ==
    LET geom == alert.geometry
        area_desc == alert.properties.areaDesc
    IN  IF geom # None /\ geom.type = "Point" THEN "point"
        ELSE IF geom # None /\ geom.type = "Polygon" THEN "polygon"
        ELSE IF area_desc.text /\ area_desc.county \in DOMAIN county_coords THEN "county"
        ELSE IF area_desc.text /\ area_desc.tag \in TargetTag THEN "default"
        ELSE "absent"

\* what the first rule that applies gives for the alert
ByRule(alert, ret) ==
    LET geom == alert.geometry
        area_desc == alert.properties.areaDesc
    IN  CASE RuleOf(alert) = "point" ->
                ret = Returned(Float(geom.coordinates[2]), Float(geom.coordinates[1]))
          [] RuleOf(alert) = "polygon" ->
                /\ ret.lat # None /\ ret.lon # None
                /\ IsMean(ret.lat.v, geom.coordinates[1], 2)
                /\ IsMean(ret.lon.v, geom.coordinates[1], 1)
          [] RuleOf(alert) = "county" ->
                ret = Returned(Float(county_coords[area_desc.county][1]),
                               Float(county_coords[area_desc.county][2]))
          [] RuleOf(alert) = "default" ->
                ret = Returned(Float(texas_center[1]), Float(texas_center[2]))
          [] OTHER -> ret = Returned(None, None)

\* C21: a call of get_alert_centroid that returns gives the coordinate of the
\* first rule that applies: the Point, the mean of the ring of the Polygon,
\* the county of the text in the table, the default coordinate when the text
\* carries the tag of the target region, and otherwise (None, None).
C21_CentroidFollowsPrecedence ==
    (pc = "located" /\ ~lastCall.ret.raised) => ByRule(alerts[1], lastCall.ret)

\* a run for Florida: a text with the tag of Texas and a county outside the
\* table is placed at the centre of Texas
C21_TexasDefaultForFloridaRun ==
    /\ pc = "located"
    /\ TARGET_STATE = Str("Florida")
    /\ alerts[1].geometry = None
    /\ alerts[1].properties.areaDesc = Text("Zavala", "TX", {})
    /\ lastCall.ret = Returned(Float(texas_center[1]), Float(texas_center[2]))

----------------------------------------------------------------------------
(* The sum of the precipitation values *)

\* the response that get_precipitation evaluates: the last one it received
Evaluated(call) == call.reqs[Len(call.reqs)]

\* the response has status 200 and a body that holds a list of values
HoldsValues(r) ==
    /\ r.kind = "http" /\ r.status = 200 /\ r.body.json
    /\ "results" \in DOMAIN r.body
    /\ \A i \in 1..Len(r.body.results) : "value" \in DOMAIN r.body.results[i]

\* the values of the list, added up from the last to the first
RECURSIVE Total(_, _)
Total(results, n) == IF n = 0 THEN 0 ELSE results[n].value + Total(results, n - 1)

\* C22: a get_precipitation call that ends with a status 200 response holding
\* a list of values returns the sum of the values and stores it under the key
\* of the call; for an empty list that is 0, returned and stored, and not None.
C22_ReturnsAndCachesTheSum ==
    (lastCall.fn = "precip" /\ lastCall.reqs # <<>> /\ HoldsValues(Evaluated(lastCall))) =>
        LET results == Evaluated(lastCall).body.results
        IN  /\ lastCall.ret = Float(Total(results, Len(results)))
            /\ Stored(precipFile, lastCall.key)
            /\ precipFile.text[lastCall.key] = JNum(Total(results, Len(results)))
            /\ results = <<>> => lastCall.ret = Float(0) /\ lastCall.ret # None

\* a rate limited call whose retry was answered with an empty list: 0 is
\* returned and stored next to the sum of an earlier call
C22_EmptyListIsZero ==
    /\ lastCall.fn = "precip"
    /\ lastCall.reqs = <<Http(429, NoJson), Http(200, Json([results |-> <<>>]))>>
    /\ lastCall.ret = Float(0)
    /\ precipFile.text[lastCall.key] = JNum(0)
    /\ \E k \in DOMAIN precipFile.text : precipFile.text[k] = JNum(12)

----------------------------------------------------------------------------
(* What a fetcher call leaves alone *)

\* the entries of the file, none for a file that does not exist
Entries(file) == IF file.exists THEN file.text ELSE <<>>

\* C23: a call of an enrichment fetcher changes at most the entry of its own
\* key in its own cache file: the other keys of the file keep their values,
\* no key but its own is added, the files of the two other fetchers, the
\* station file and the alert files stay as they are, and a call that sends
\* no request changes no file.
C23_FetchChangesOnlyItsKey ==
    [][(lastCall' # lastCall /\ lastCall'.fn \in Fetchers) =>
          LET call == lastCall'
              old == FileFor(call.fn, precipFile, elevFile, gageFile)
              new == FileFor(call.fn, precipFile', elevFile', gageFile')
          IN  /\ \A fn \in Fetchers \ {call.fn} :
                    FileFor(fn, precipFile', elevFile', gageFile')
                       = FileFor(fn, precipFile, elevFile, gageFile)
              /\ usgsFile' = usgsFile
              /\ nwsFiles' = nwsFiles
              /\ DOMAIN Entries(new) \subseteq DOMAIN Entries(old) \cup {call.key}
              /\ \A k \in DOMAIN Entries(old) \ {call.key} :
                    k \in DOMAIN Entries(new) /\ Entries(new)[k] = Entries(old)[k]
              /\ call.reqs = <<>> => new = old]_vars

\* with the station file and an alert file on disk, a call has stored its key
\* next to another key of its file, and the two other fetchers have a file
C23_StoredNextToOtherKey ==
    /\ lastCall.fn = "elev"
    /\ lastCall.reqs # <<>>
    /\ Stored(elevFile, lastCall.key)
    /\ \E k \in DOMAIN elevFile.text : k # lastCall.key
    /\ precipFile.exists /\ gageFile.exists
    /\ usgsFile.exists
    /\ \E ym \in YearMonths : nwsFiles[ym].exists

----------------------------------------------------------------------------
(* The order of the records *)

\* the iteration of origin a comes before the iteration of origin b
IterationBefore(a, b) ==
    a.year < b.year \/ (a.year = b.year /\ a.month < b.month)
SameIteration(a, b) == a.year = b.year /\ a.month = b.month

\* C24: the records are in the order of the (year, month) iterations that
\* appended them; among the records of one iteration the positive ones come
\* before the negative ones, and the positive ones and the negative ones
\* each follow the order of the alerts of the fetched list.
C24_RecordsFollowTheLoops ==
    /\ Len(origin) = Len(records)
    /\ \A i, j \in 1..Len(records) :
          i < j =>
             /\ ~IterationBefore(origin[j], origin[i])
             /\ SameIteration(origin[i], origin[j]) =>
                   /\ records[i].flood_occurred >= records[j].flood_occurred
                   /\ records[i].flood_occurred = records[j].flood_occurred
                         => origin[i].alert < origin[j].alert

\* the run is over: a month with two alerts gave two positive records and
\* then two negative records
C24_TwoAlertsOfOneMonth ==
    /\ pc = "done"
    /\ Len(records) = 4
    /\ \A i \in 1..4 : origin[i].year = origin[1].year /\ origin[i].month = origin[1].month
    /\ <<records[1].flood_occurred, records[2].flood_occurred,
         records[3].flood_occurred, records[4].flood_occurred>> = <<1, 1, 0, 0>>
    /\ <<origin[1].alert, origin[2].alert, origin[3].alert, origin[4].alert>>
          = <<1, 2, 1, 2>>

----------------------------------------------------------------------------
(* The station and the gage height of a record *)

\* the loaded stations with the given id that are less than 25 km from the point
StationsNear(id, lat, lon) ==
    {i \in 1..Len(USGS_STATIONS) :
        /\ Str(USGS_STATIONS[i].id) = id
        /\ haversine(lat, lon, USGS_STATIONS[i].lat, USGS_STATIONS[i].lon)
              < Km(MAX_DISTANCE_KM)}

\* C25: in every record flood_occurred is 0 or 1, a gage height is present
\* only next to a station id, and a station id that is present is the id of
\* a loaded station less than 25 km from the coordinate of the record.
C25_StationOfRecordIsNear ==
    \A k \in 1..Len(records) :
        /\ records[k].flood_occurred \in {0, 1}
        /\ records[k].usgs_gage_height_ft # None => records[k].usgs_station_id # None
        /\ records[k].usgs_station_id # None =>
              StationsNear(records[k].usgs_station_id, records[k].lat, records[k].lon) # {}

\* with stations loaded, a positive record has a station and a gage height
\* and the negative record of the same alert, half a degree away, has neither
C25_NearAndFar ==
    /\ USGS_STATIONS # <<>>
    /\ \E i, j \in 1..Len(records) :
          /\ origin[i] = [origin[j] EXCEPT !.date = origin[i].date]
          /\ records[i].flood_occurred = 1
          /\ records[i].usgs_station_id # None
          /\ records[i].usgs_gage_height_ft # None
          /\ records[j].flood_occurred = 0
          /\ records[j].usgs_station_id = None
          /\ records[j].usgs_gage_height_ft = None

----------------------------------------------------------------------------
(* Alerts without a centroid *)

\* get_alert_centroid returns for the alert, with no latitude
NoLatitude(alert) ==
    LET c == get_alert_centroid(alert) IN ~c.raised /\ c.lat = None

\* one of the two record loops is at an alert of the list
AtAlert == pc \in {"pos", "neg"} /\ loop.i <= Len(alerts)

\* C26: when a record loop comes to an alert for which get_alert_centroid
\* gives no latitude, it goes on to the next alert of the same loop: no
\* record is added, no request is sent and no cache file is changed; and a
\* record is only ever added for an alert that has a latitude.
C26_NoCentroidNoRecord ==
    [][/\ (AtAlert /\ NoLatitude(alerts[loop.i])) =>
             /\ records' = records
             /\ budget' = budget
             /\ lastCall' = lastCall
             /\ <<precipFile', elevFile', gageFile'>> = <<precipFile, elevFile, gageFile>>
             /\ <<usgsFile', nwsFiles'>> = <<usgsFile, nwsFiles>>
             /\ pc' = pc
             /\ loop' = [loop EXCEPT !.i = loop.i + 1]
       /\ records' # records =>
             /\ Len(records') = Len(records) + 1
             /\ ~NoLatitude(alerts[loop.i])]_vars

\* the first alert of the list has no centroid and the second one has its
\* positive and its negative record
C26_RecordsAfterSkippedAlert ==
    /\ Len(alerts) = 2
    /\ NoLatitude(alerts[1])
    /\ Len(records) = 2
    /\ \A k \in 1..2 : origin[k].alert = 2 /\ origin[k].year = loop.year
    /\ records[1].flood_occurred = 1
    /\ records[2].flood_occurred = 0

----------------------------------------------------------------------------
(* Termination of build_dataset *)

\* a run for Texas with one month per year
LiveInit == Init /\ TARGET_STATE = Str("Texas") /\ MONTH_LIMIT = 1

\* build_dataset with services that rate limit at most MaxFaults requests
LiveNext ==
    \/ LoadStationsRegion(Affordable(Answers(
            {ExcResp, Http(429, NoJson), Http(200, StationBody(<<>>)),
             Http(200, StationBody(<<stA>>))}))) /\ WithinBudget
    \/ SaveStations(HealthyDisk)
    \/ StartMonths
    \/ FetchAlerts
    \/ QueryOffice(Affordable(Answers(
            {Http(429, NoJson), Http(200, Json([events |-> <<>>])),
             Http(200, Json([events |->
                <<[issue |-> IssueOn(<<loop.year, 1, 31>>),
                   locations |-> Text("Travis", "TX", {})]>>]))}))) /\ WithinBudget
    \/ PersistAlerts(HealthyDisk)
    \/ StartPositives
    \/ PosPrecip(Affordable(Answers({Http(429, NoJson), Http(200, Json([results |-> <<[value |-> 5]>>]))}))) /\ WithinBudget
    \/ PosElev(Affordable(Answers(ElevStub))) /\ WithinBudget
    \/ PosGage(Affordable(Answers({Http(429, NoJson), Http(200, Json([features |-> <<[value |-> Float(32)]>>]))}))) /\ WithinBudget
    \/ StartNegatives
    \/ NegPrecip(Affordable(Answers({Http(429, NoJson), Http(200, Json([results |-> <<[value |-> 5]>>]))}))) /\ WithinBudget
    \/ NegElev(Affordable(Answers(ElevStub))) /\ WithinBudget
    \/ NegGage(Affordable(Answers({Http(429, NoJson), Http(200, Json([features |-> <<[value |-> Float(32)]>>]))}))) /\ WithinBudget
    \/ NextMonth
    \/ WriteCsv

\* build_dataset is one sequential computation: a step that is possible is
\* taken, as every request returns and every sleep ends
LiveSpec == LiveInit /\ [][LiveNext]_vars /\ WF_vars(LiveNext)

\* the run is over: the records went to the CSV file, or the station load
\* ended the process
Terminated == pc \in {"done", "aborted"}

\* the lookups of the record under way: get_precipitation, then get_elevation
LookupsUnderWay ==
    IF pc \in {"pos_elev", "neg_elev"} THEN 1
    ELSE IF pc \in {"pos_gage", "neg_gage"} THEN 2
    ELSE 0

\* the queries of the run so far: its regions, the offices of the months it
\* fetched and three lookups per record
QueriesSoFar ==
    (IF pc \in {"stations", "aborted"} THEN Len(loop.log) ELSE Len(state_codes))
    + Len(Wfos) * (IF pc = "office" THEN Len(loop.calls) - 1 ELSE Len(loop.calls))
    + (IF pc = "office" THEN Len(loop.log) ELSE 0)
    + 3 * Len(records) + LookupsUnderWay

\* C27: a run of build_dataset in which every request returns comes to its
\* end, with the records handed to the CSV file or with the exit of the
\* station load; no region, office or lookup sends more than two requests,
\* and the requests of the run are at most two for each region, each office
\* of each month and each lookup.
C27_TerminatesWithinTwoRequestsPerQuery ==
    /\ <>Terminated
    /\ [](/\ budget.queries = QueriesSoFar
          /\ budget.sent <= 2 * QueriesSoFar
          /\ \A i \in 1..Len(loop.log) : Len(loop.log[i].reqs) <= 2
          /\ lastCall # NoCall => Len(lastCall.reqs) <= 2)
    /\ [][pc' = "aborted" => pc = "stations"]_vars

\* the run is over after a rate limit and a retry, with records
C27_DoneAfterRetry ==
    /\ pc = "done"
    /\ records # <<>>
    /\ budget.faults = 1
    /\ budget.sent > 0
    /\ \E k \in 1..Len(records) : records[k].usgs_gage_height_ft # None

====
